---- MODULE Spec2Model ----
(***************************************************************************)
(* Dev Cockpit quick-actions engine: the privilege escalation gateway      *)
(* (internal/sudo), the bounded process runner, the action logic and the   *)
(* quick-actions session state machine (internal/modules/quickactions).    *)
(***************************************************************************)
EXTENDS Integers, Sequences, FiniteSets, TLC

(***************************************************************************)
(* Bounds of the model.                                                    *)
(***************************************************************************)
\* number of action runs the goroutines start in one behaviour
MaxRuns == 2

(***************************************************************************)
(* Program constants.                                                      *)
(***************************************************************************)
\* timeout tiers of the runner, NoTimeout marks exec.Command
\* without a context
defaultCommandTimeout == "30s"
shortCommandTimeout == "5s"
longCommandTimeout == "60s"
NoTimeout == "none"

\* goroutines that run action logic closures (tea.Cmd functions)
Callers == {"c1", "c2"}
\* texts the operator may type into the dialog; " " is whitespace only
Secrets == {"s1", "s2"}
TypedTexts == Secrets \cup {"", " "}

VARIABLES
    cachedPassword,   \* sudo.cachedPassword, "" when unset
    cacheMutex,       \* holder of sudo.cacheMutex, or "free"
    g,                \* per goroutine: position and locals of the gateway call
    act,              \* per goroutine: the action logic closure it executes
    runs,             \* number of action runs started
    hist,             \* history of the credential cache (observation only)
    log,              \* set of warnings the runner has logged
    app,              \* app.Model: the fields Update reads and writes
    qa,               \* quickactions.Model: selection and session state
    closures,         \* the action logic closures that are executing
    queue,            \* completion messages sent and not yet delivered
    ticks,            \* spinner ticks scheduled and not yet delivered
    started,          \* number of action logic closures started so far
    wifi,             \* position and locals of a fixWiFi run
    trash,            \* position and locals of an emptyTrashInternal run
    trashDir,         \* the trash directory: whether it exists, its entries
    fixAll,           \* position and locals of a fixAllCommon closure
    downloads,        \* position and locals of a cleanDownloads run, and
                      \* the Downloads directory
    reset,            \* position and locals of a resetNetwork run
    spotlight         \* position and locals of a fixSpotlight run

gatewayVars == <<cachedPassword, cacheMutex, g, act, runs, hist, log>>
execVars == <<app, qa, closures, queue, ticks, started>>
wifiVars == <<wifi>>
trashVars == <<trash, trashDir>>
jobVars == <<fixAll, downloads, reset, spotlight>>
nonGatewayVars == <<execVars, wifiVars, trashVars, jobVars>>
nonExecVars == <<gatewayVars, wifiVars, trashVars, jobVars>>
vars == <<gatewayVars, execVars, wifiVars, trashVars, jobVars>>

(***************************************************************************)
(* The application shell (internal/app) and the quick-actions module       *)
(* (internal/modules/quickactions): state after construction.              *)
(***************************************************************************)
\* the module list of the application, cut to its first NumModules entries
NumModules == 3
\* position of quickactions.New in the module list (0-based, as in the code)
QuickActionsIndex == 1
\* the action list of the module, cut to its first NumActions entries
NumActions == 3
\* frames of the progress indicator
SpinnerFrames == 10
\* number of action logic closures started in one behaviour
MaxStarts == 2

ActionNames ==
    <<"Kill Heavy Processes", "Clear RAM", "Disable Animations",
      "Rebuild Launch Services", "Fix WiFi", "Flush DNS", "Reset Network",
      "Fix Bluetooth", "Fix Audio", "Reset SMC", "Reset NVRAM",
      "Fix Spotlight", "Fix Time Machine", "Fix Permissions", "Empty Trash",
      "Clean Downloads", "Purge Memory">>

\* m.actions; the code indexes it from 0, the sequence from 1
actions == SubSeq(ActionNames, 1, NumActions)

FixAllName == "Fix All Common Issues"

\* the empty status string
NoMessage == [text |-> "", action |-> ""]

InitApp ==
    [activeModule |-> 0, moduleFocused |-> FALSE, showHelp |-> FALSE,
     showLogs |-> FALSE, quitting |-> FALSE]

InitQA ==
    [actionIndex |-> 0, running |-> FALSE, runningAction |-> "",
     status |-> NoMessage, statusType |-> "", spinnerFrame |-> 0]

InitExecIdle ==
    /\ app = InitApp
    /\ qa = InitQA
    /\ closures = {}
    /\ queue = {}
    /\ ticks = 0
    /\ started = 0

(***************************************************************************)
(* Action logic that runs as one sequential closure: state before a run.   *)
(***************************************************************************)
\* networkInterface is "" until getActiveNetworkInterface has returned;
\* calls lists the power commands issued, allTimedOut records whether every
\* runner call of the run so far timed out
IdleWiFi ==
    [pc |-> "idle", i |-> 0, networkInterface |-> "", success |-> FALSE,
     res |-> "none", calls |-> <<>>, allTimedOut |-> TRUE]

InitWiFiIdle == wifi = IdleWiFi

\* invoked lists the removal strategies started, measured whether the two
\* count commands produced a number
IdleTrash ==
    [pc |-> "idle", itemsBefore |-> 0, itemsAfter |-> 0, success |-> FALSE,
     res |-> "none", invoked |-> <<>>, measured |-> <<>>]

InitTrashIdle ==
    /\ trash = IdleTrash
    /\ trashDir = [exists |-> TRUE, items |-> 0]

\* fixed and failed are the closure's counters, err1 the result of the
\* first command of flushDNS, i and ok the loop index and success counter
\* of fixPermissions; returned lists the sub-actions that have returned,
\* each with whether it returned nil
IdleFixAll ==
    [pc |-> "idle", err1 |-> FALSE, i |-> 0, ok |-> 0, fixed |-> 0,
     failed |-> 0, returned |-> <<>>, message |-> "", success |-> FALSE]

\* deleting tells whether the delete command has been started; dir is the
\* Downloads directory: whether it exists and how many of its files are
\* older than 30 days
IdleDownloads ==
    [pc |-> "idle", filesBefore |-> 0, filesAfter |-> 0, res |-> "none",
     deleting |-> FALSE, dir |-> [exists |-> TRUE, old |-> 0]]

\* success is resetNetwork's counter, err1 the result of the first command
\* of flushDNS, i the loop index; calls lists the power commands issued
IdleReset ==
    [pc |-> "idle", err1 |-> FALSE, i |-> 0, success |-> 0,
     networkInterface |-> "", calls |-> <<>>, res |-> "none"]

\* calls lists the gateway calls of the run that have returned, each with
\* the step it was for and whether it returned nil
IdleSpotlight == [pc |-> "idle", calls |-> <<>>, res |-> "none"]

InitJobsIdle ==
    /\ fixAll = IdleFixAll
    /\ downloads = IdleDownloads
    /\ reset = IdleReset
    /\ spotlight = IdleSpotlight

(***************************************************************************)
(* Outcomes of external processes: the error of cmd.Run ("nil", an         *)
(* *exec.ExitError with its exit code, or another error such as an         *)
(* executable that is not found), the class of the combined output, and    *)
(* whether the target command itself was executed.                         *)
(***************************************************************************)
PwRequiredText == "sudo: a password is required"
SorryText == "Sorry, try again."
OtherText == "Operation not permitted"

Outcome(err, code, text, ran) ==
    [err |-> err, code |-> code, text |-> text, ran |-> ran]

NoOutcome == Outcome("none", 0, "", FALSE)
Succeeded == Outcome("nil", 0, "", TRUE)
SilentExit1 == Outcome("ExitError", 1, "", TRUE)
FailedWithText == Outcome("ExitError", 1, OtherText, TRUE)
NotFound == Outcome("Error", 0, "", FALSE)
KilledBySignal == Outcome("ExitError", -1, "", TRUE)
PasswordRequired == Outcome("ExitError", 1, PwRequiredText, FALSE)
Rejected == Outcome("ExitError", 1, SorryText, FALSE)

\* what a command does when run without privileges, when it exits by itself
UnprivOutcomes == {Succeeded, SilentExit1, FailedWithText, NotFound}
\* sudo -n <command>: the ticket is valid and the command runs, or sudo
\* refuses because a password is required
SudoNOutcomes == {Succeeded, PasswordRequired, SilentExit1, FailedWithText}
\* sudo -S <command> with the password on stdin: the password is accepted
\* and the command runs, or sudo rejects the password
SudoSOutcomes == {Succeeded, Rejected, SilentExit1, FailedWithText}

\* strings.Contains(strings.ToLower(text), phrase) on the output classes
ContainsLower(text, phrase) ==
    \/ phrase = "a password is required" /\ text = PwRequiredText
    \/ phrase = "sorry, try again" /\ text = SorryText

requiresPassword(o) ==
    IF o.err = "nil" THEN FALSE
    ELSE IF \/ ContainsLower(o.text, "a password is required")
            \/ ContainsLower(o.text, "sorry, try again")
         THEN TRUE
         ELSE o.err = "ExitError" /\ o.code = 1 /\ o.text = ""

\* strings.TrimSpace: leading and trailing white space removed
IsSpace(ch) == ch \in {" ", "\n", "\t"}

RECURSIVE TrimLeft(_)
TrimLeft(t) ==
    IF t # "" /\ IsSpace(SubSeq(t, 1, 1)) THEN TrimLeft(SubSeq(t, 2, Len(t)))
    ELSE t

RECURSIVE TrimRight(_)
TrimRight(t) ==
    IF t # "" /\ IsSpace(SubSeq(t, Len(t), Len(t)))
    THEN TrimRight(SubSeq(t, 1, Len(t) - 1))
    ELSE t

TrimSpace(t) == TrimRight(TrimLeft(t))

(***************************************************************************)
(* Bounded process runner.  A process run under a context either exits by  *)
(* itself (deadline FALSE, or TRUE when the deadline passes between the    *)
(* exit and the ctx.Err() check) or is killed at the deadline.             *)
(***************************************************************************)
ErrNil == "nil"
ErrTimedOut == "command timed out"
ErrExit == "exit status"
ErrNotFound == "executable file not found"

TimedOutWarning(timeout) == [msg |-> "Command timed out after", dur |-> timeout]

\* the error value cmd.Run / cmd.CombinedOutput returns for an outcome
CmdError(o) ==
    CASE o.err = "nil" -> ErrNil
      [] o.err = "ExitError" /\ o.code = -1 -> "signal: killed"
      [] o.err = "ExitError" -> ErrExit
      [] OTHER -> ErrNotFound

runCommandWithTimeoutOutput(o, deadline) ==
    IF deadline
    THEN [err |-> ErrTimedOut, out |-> "", logged |-> TRUE]
    ELSE [err |-> CmdError(o), out |-> o.text, logged |-> FALSE]

runCommandWithTimeout(o, deadline) ==
    IF deadline
    THEN [err |-> ErrTimedOut, logged |-> TRUE]
    ELSE [err |-> CmdError(o), logged |-> FALSE]

runShellWithTimeout(o, deadline) ==
    IF deadline
    THEN [err |-> ErrTimedOut, logged |-> TRUE]
    ELSE [err |-> CmdError(o), logged |-> FALSE]

runShellWithTimeoutOutput(o, deadline) ==
    IF deadline
    THEN [err |-> ErrTimedOut, out |-> "", logged |-> TRUE]
    ELSE [err |-> CmdError(o), out |-> o.text, logged |-> FALSE]

\* what the environment decides about one process run under the runner: it
\* exits by itself with outcome o, in time or (when it was started) just
\* as the deadline passes, or it is killed at the deadline
RunnerCalls(outcomes) ==
    {c \in [o : outcomes, deadline : BOOLEAN] : c.deadline => c.o.ran}
        \cup {[o |-> KilledBySignal, deadline |-> TRUE]}

\* the log after a runner call with the given timeout has returned r
Logged(r, timeout) ==
    IF r.logged THEN log \cup {TimedOutWarning(timeout)} ELSE log

(***************************************************************************)
(* Privilege escalation gateway: executeSudoCommand and sudo.Run.          *)
(* Positions of a gateway call:                                            *)
(*   idle    no call in progress                                           *)
(*   unpriv  waiting for the unprivileged attempt (runner, 30s)            *)
(*   sudoN   waiting for sudo -n (exec.Command, no context)                *)
(*   lock    in ensurePassword, waiting for cacheMutex                     *)
(*   prompt  holding cacheMutex, waiting for the osascript dialog          *)
(*   sudoS   waiting for sudo -S with the password on stdin                *)
(*   inval   the sudo -S run failed, waiting for cacheMutex                *)
(*   ret     the call has returned res to the action logic                 *)
(* The fields unpriv, sudoN, sudoS, dialog, nPrompts, nElev and epochOK    *)
(* record what happened in the call; only sudoS is read by the code.       *)
(***************************************************************************)
ResNil == "nil"
ResCancelled == "administrator approval cancelled"
ResPromptFailed == "failed to request administrator approval"
ResCommandFailed == "sudo command failed"

IdleCall ==
    [pc |-> "idle", password |-> "", hang |-> FALSE,
     unpriv |-> "none", sudoN |-> NoOutcome, sudoS |-> NoOutcome,
     dialog |-> "none", nPrompts |-> 0, nElev |-> 0, epochOK |-> FALSE,
     res |-> "none"]

\* the timeout under which the process a call waits for was started:
\* runCommandWithTimeoutOutput(defaultCommandTimeout, ...) for the
\* unprivileged attempt, exec.Command without a context in package sudo
TimeoutOf(pc) ==
    IF pc = "unpriv" THEN defaultCommandTimeout ELSE NoTimeout

WaitPcs == {"unpriv", "sudoN", "prompt", "sudoS"}

\* start of an external process: whether it ever exits by itself is the
\* environment's choice
Spawn(gc, pc, hang) == [gc EXCEPT !.pc = pc, !.hang = hang]

Return(gc, res) == [gc EXCEPT !.pc = "ret", !.res = res, !.hang = FALSE]

\* the class of the unprivileged attempt's result
UnprivClass(o, r) ==
    CASE r.err = ErrNil -> "ok"
      [] r.err # ErrTimedOut /\ requiresPassword(o) -> "sig"
      [] OTHER -> "nosig"

\* executeSudoCommand line 2406: first try without sudo, through the runner
BeginCall(c, hang) == g' = [g EXCEPT ![c] = Spawn(IdleCall, "unpriv", hang)]

\* executeSudoCommand lines 2408-2417 on the unprivileged attempt's result
AfterUnpriv(c, o, r, hang) ==
    /\ g' = [g EXCEPT ![c] =
               IF r.err = ErrNil
               THEN Return([@ EXCEPT !.unpriv = UnprivClass(o, r)], ResNil)
               ELSE Spawn([@ EXCEPT !.unpriv = UnprivClass(o, r)], "sudoN", hang)]
    /\ log' = IF r.logged THEN log \cup {TimedOutWarning(TimeoutOf("unpriv"))} ELSE log

UnprivReturns(c) ==
    /\ g[c].pc = "unpriv"
    /\ ~g[c].hang
    /\ \E o \in UnprivOutcomes, deadline \in BOOLEAN, hang \in BOOLEAN :
          /\ deadline => o.ran
          /\ AfterUnpriv(c, o, runCommandWithTimeoutOutput(o, deadline), hang)
    /\ UNCHANGED <<cachedPassword, cacheMutex, act, runs, hist>>
    /\ UNCHANGED nonGatewayVars

UnprivTimesOut(c) ==
    /\ g[c].pc = "unpriv"
    /\ g[c].hang
    /\ TimeoutOf(g[c].pc) # NoTimeout
    /\ \E hang \in BOOLEAN :
          AfterUnpriv(c, KilledBySignal,
                      runCommandWithTimeoutOutput(KilledBySignal, TRUE), hang)
    /\ UNCHANGED <<cachedPassword, cacheMutex, act, runs, hist>>
    /\ UNCHANGED nonGatewayVars

\* sudo.Run lines 25-37: sudo -n returned
SudoNReturns_PromptOnAnyFailure(c) ==
    /\ g[c].pc = "sudoN"
    /\ ~g[c].hang
    /\ \E o \in SudoNOutcomes :
          g' = [g EXCEPT ![c] =
                  IF o.err = "nil"
                  THEN Return([@ EXCEPT !.sudoN = o], ResNil)
                  ELSE [@ EXCEPT !.pc = "lock", !.sudoN = o]]
    /\ UNCHANGED <<cachedPassword, cacheMutex, act, runs, hist, log>>
    /\ UNCHANGED nonGatewayVars

SudoNReturns(c) ==
    /\ g[c].pc = "sudoN"
    /\ ~g[c].hang
    /\ \E o \in SudoNOutcomes :
          g' = [g EXCEPT ![c] =
                  IF o.err = "nil"
                  THEN Return([@ EXCEPT !.sudoN = o], ResNil)
                  ELSE IF ~requiresPassword(o)
                  THEN Return([@ EXCEPT !.sudoN = o], ResCommandFailed)
                  ELSE [@ EXCEPT !.pc = "lock", !.sudoN = o]]
    /\ UNCHANGED <<cachedPassword, cacheMutex, act, runs, hist, log>>
    /\ UNCHANGED nonGatewayVars

(***************************************************************************)
(* History of the credential cache, kept for the properties only.          *)
(*   established      a call that prompted has run its sudo -S command     *)
(*                    successfully, and no call has handled a sudo -S      *)
(*                    failure with a privilege-related signature since     *)
(*                    that prompt                                          *)
(*   everEstablished  some call that prompted has run its sudo -S command  *)
(*                    successfully                                         *)
(*   rejected         sudo -S has rejected a password at some time         *)
(*   invalidated      a call has returned after a sudo -S failure with a   *)
(*                    privilege-related signature, and no prompt has       *)
(*                    yielded a password since                             *)
(*   waiters          the calls that were waiting for cacheMutex when the  *)
(*                    last dialog yielded a password, and still wait       *)
(***************************************************************************)
InitHist ==
    [established |-> FALSE, everEstablished |-> FALSE, rejected |-> FALSE,
     invalidated |-> FALSE, waiters |-> {}]

\* the operator's answers to the dialog, and the ways osascript can end
DialogOutcomes ==
    [kind : {"allow"}, text : TypedTexts]
        \cup [kind : {"cancel", "dialog timeout", "failure"}, text : {""}]

\* sudo.promptPassword: osascript's exit and output to (password, error)
promptPassword(d) ==
    CASE d.kind = "allow" /\ TrimSpace(d.text) # "" ->
            [password |-> TrimSpace(d.text), err |-> "ErrNil"]
      [] d.kind = "allow" -> [password |-> "", err |-> "ErrCancelled"]
      [] d.kind \in {"cancel", "dialog timeout"} ->
            [password |-> "", err |-> "ErrCancelled"]
      [] OTHER -> [password |-> "", err |-> ResPromptFailed]

\* executeSudoCommand lines 2418-2427: the error it returns for sudo.Run's
SurfaceError(err) ==
    IF err = "ErrCancelled" THEN ResCancelled ELSE err

\* the record of a call's earlier attempts is dropped when its sudo -S
\* command starts
Committed(gc) == [gc EXCEPT !.unpriv = "none", !.sudoN = NoOutcome]

\* a variant that does not take cacheMutex
ensurePassword_NoMutex(c) ==
    /\ g[c].pc = "lock"
    /\ \E hang \in BOOLEAN :
          IF cachedPassword # ""
          THEN /\ g' = [g EXCEPT ![c] =
                          Spawn([Committed(@) EXCEPT !.password = cachedPassword,
                                                     !.nElev = @ + 1],
                                "sudoS", hang)]
               /\ cacheMutex' = cacheMutex
          ELSE /\ g' = [g EXCEPT ![c] =
                          Spawn([@ EXCEPT !.nPrompts = @ + 1], "prompt", hang)]
               /\ cacheMutex' = c
    /\ hist' = [hist EXCEPT !.waiters = @ \ {c}]
    /\ UNCHANGED <<cachedPassword, act, runs, log>>
    /\ UNCHANGED nonGatewayVars

\* sudo.ensurePassword up to the prompt: under cacheMutex, reuse the cached
\* password or open the dialog (the mutex stays held while it is open)
ensurePassword(c) ==
    /\ g[c].pc = "lock"
    /\ cacheMutex = "free"
    /\ \E hang \in BOOLEAN :
          IF cachedPassword # ""
          THEN /\ g' = [g EXCEPT ![c] =
                          Spawn([Committed(@) EXCEPT !.password = cachedPassword,
                                                     !.nElev = @ + 1],
                                "sudoS", hang)]
               /\ cacheMutex' = cacheMutex
          ELSE /\ g' = [g EXCEPT ![c] =
                          Spawn([@ EXCEPT !.nPrompts = @ + 1], "prompt", hang)]
               /\ cacheMutex' = c
    /\ hist' = [hist EXCEPT !.waiters = @ \ {c}]
    /\ UNCHANGED <<cachedPassword, act, runs, log>>
    /\ UNCHANGED nonGatewayVars

\* the dialog closed: rest of ensurePassword (store, unlock) and of sudo.Run
\* up to the start of sudo -S
PromptReturns_NoStore(c) ==
    /\ g[c].pc = "prompt"
    /\ ~g[c].hang
    /\ cacheMutex = c
    /\ \E d \in DialogOutcomes, hang \in BOOLEAN :
          LET p == promptPassword(d) IN
          IF p.err # "ErrNil"
          THEN /\ g' = [g EXCEPT ![c] =
                          Return([@ EXCEPT !.dialog = d.kind], SurfaceError(p.err))]
               /\ UNCHANGED <<cachedPassword, hist>>
          ELSE /\ g' = [g EXCEPT ![c] =
                          Spawn([Committed(@) EXCEPT !.dialog = d.kind,
                                                     !.password = p.password,
                                                     !.nElev = @ + 1,
                                                     !.epochOK = TRUE],
                                "sudoS", hang)]
               /\ cachedPassword' = cachedPassword
               /\ hist' = [hist EXCEPT
                             !.invalidated = FALSE,
                             !.waiters = {w \in Callers : g[w].pc = "lock"}]
    /\ cacheMutex' = "free"
    /\ UNCHANGED <<act, runs, log>>
    /\ UNCHANGED nonGatewayVars

PromptReturns(c) ==
    /\ g[c].pc = "prompt"
    /\ ~g[c].hang
    /\ cacheMutex = c
    /\ \E d \in DialogOutcomes, hang \in BOOLEAN :
          LET p == promptPassword(d) IN
          IF p.err # "ErrNil"
          THEN /\ g' = [g EXCEPT ![c] =
                          Return([@ EXCEPT !.dialog = d.kind], SurfaceError(p.err))]
               /\ UNCHANGED <<cachedPassword, hist>>
          ELSE /\ g' = [g EXCEPT ![c] =
                          Spawn([Committed(@) EXCEPT !.dialog = d.kind,
                                                     !.password = p.password,
                                                     !.nElev = @ + 1,
                                                     !.epochOK = TRUE],
                                "sudoS", hang)]
               /\ cachedPassword' = p.password
               /\ hist' = [hist EXCEPT
                             !.invalidated = FALSE,
                             !.waiters = {w \in Callers : g[w].pc = "lock"}]
    /\ cacheMutex' = "free"
    /\ UNCHANGED <<act, runs, log>>
    /\ UNCHANGED nonGatewayVars

\* sudo.Run line 47: cmd.Run of sudo -S returned
SudoSReturns_Retry(c) ==
    /\ g[c].pc = "sudoS"
    /\ ~g[c].hang
    /\ \E o \in SudoSOutcomes :
          /\ g' = [g EXCEPT ![c] =
                     IF o.err = "nil"
                     THEN Return([@ EXCEPT !.sudoS = o], ResNil)
                     ELSE [@ EXCEPT !.pc = IF requiresPassword(o) /\ g[c].nElev < 2
                                           THEN "lock" ELSE "inval",
                                    !.sudoS = o]]
          /\ hist' = [hist EXCEPT
                        !.established =
                            @ \/ (o.err = "nil" /\ g[c].nPrompts > 0 /\ g[c].epochOK),
                        !.everEstablished =
                            @ \/ (o.err = "nil" /\ g[c].nPrompts > 0),
                        !.rejected = @ \/ o = Rejected]
    /\ UNCHANGED <<cachedPassword, cacheMutex, act, runs, log>>
    /\ UNCHANGED nonGatewayVars

SudoSReturns(c) ==
    /\ g[c].pc = "sudoS"
    /\ ~g[c].hang
    /\ \E o \in SudoSOutcomes :
          /\ g' = [g EXCEPT ![c] =
                     IF o.err = "nil"
                     THEN Return([@ EXCEPT !.sudoS = o], ResNil)
                     ELSE [@ EXCEPT !.pc = "inval", !.sudoS = o]]
          /\ hist' = [hist EXCEPT
                        !.established =
                            @ \/ (o.err = "nil" /\ g[c].nPrompts > 0 /\ g[c].epochOK),
                        !.everEstablished =
                            @ \/ (o.err = "nil" /\ g[c].nPrompts > 0),
                        !.rejected = @ \/ o = Rejected]
    /\ UNCHANGED <<cachedPassword, cacheMutex, act, runs, log>>
    /\ UNCHANGED nonGatewayVars

\* the history after a call has handled the failure o of its sudo -S run
AfterFailure(o) ==
    [hist EXCEPT !.invalidated = @ \/ requiresPassword(o),
                 !.established = @ /\ ~requiresPassword(o)]

EpochsAfterFailure(gs, o) ==
    [d \in Callers |-> [gs[d] EXCEPT !.epochOK = @ /\ ~requiresPassword(o)]]

\* sudo.Run lines 48-53: under cacheMutex, clear the cache when the failure
\* looks privilege-related, then return the error
Invalidate_KeepCache(c) ==
    /\ g[c].pc = "inval"
    /\ cacheMutex = "free"
    /\ cachedPassword' = cachedPassword
    /\ hist' = AfterFailure(g[c].sudoS)
    /\ g' = EpochsAfterFailure([g EXCEPT ![c] = Return(@, ResCommandFailed)],
                               g[c].sudoS)
    /\ UNCHANGED <<cacheMutex, act, runs, log>>
    /\ UNCHANGED nonGatewayVars

\* a variant that clears the cache after every failure of sudo -S
Invalidate_OnAnyFailure(c) ==
    /\ g[c].pc = "inval"
    /\ cacheMutex = "free"
    /\ cachedPassword' = ""
    /\ hist' = AfterFailure(g[c].sudoS)
    /\ g' = EpochsAfterFailure([g EXCEPT ![c] = Return(@, ResCommandFailed)],
                               g[c].sudoS)
    /\ UNCHANGED <<cacheMutex, act, runs, log>>
    /\ UNCHANGED nonGatewayVars

Invalidate(c) ==
    /\ g[c].pc = "inval"
    /\ cacheMutex = "free"
    /\ cachedPassword' = IF requiresPassword(g[c].sudoS) THEN "" ELSE cachedPassword
    /\ hist' = AfterFailure(g[c].sudoS)
    /\ g' = EpochsAfterFailure([g EXCEPT ![c] = Return(@, ResCommandFailed)],
                               g[c].sudoS)
    /\ UNCHANGED <<cacheMutex, act, runs, log>>
    /\ UNCHANGED nonGatewayVars

(***************************************************************************)
(* Action logic closures that go through the gateway.  A closure issues    *)
(* its gateway calls one after the other; errs holds the errors returned   *)
(* so far, declined whether the operator has pressed Cancel in this run.   *)
(***************************************************************************)
NoAction == [name |-> "none", errs |-> <<>>, declined |-> FALSE]

\* the commands of an action, in the order the closure issues them
Commands(name) ==
    CASE name = "Clear RAM" -> <<"purge">>
      [] name = "Flush DNS" -> <<"dscacheutil", "killall">>
      [] OTHER -> <<>>

GatewayActions == {"Clear RAM", "Flush DNS"}

\* the command a gateway call in progress is about
CurrentCommand(c) == Commands(act[c].name)[Len(act[c].errs) + 1]

\* flushDNS lines 2389-2397 and clearRAM line 2291: the closure's error
ActionError(name, errs) ==
    CASE name = "Flush DNS" ->
            IF errs[1] # ResNil /\ errs[2] # ResNil
            THEN "DNS flush failed - admin privileges required" ELSE ResNil
      [] OTHER -> errs[1]

\* whether the closure issues another gateway call after errs
HasNextCall(name, errs) == Len(errs) < Len(Commands(name))

\* a goroutine starts an action logic closure, which issues its first call
StartAction(c) ==
    /\ act[c].name = "none"
    /\ runs < MaxRuns
    /\ \E name \in GatewayActions, hang \in BOOLEAN :
          /\ act' = [act EXCEPT ![c] = [NoAction EXCEPT !.name = name]]
          /\ BeginCall(c, hang)
    /\ runs' = runs + 1
    /\ UNCHANGED <<cachedPassword, cacheMutex, hist, log>>
    /\ UNCHANGED nonGatewayVars

\* a gateway call returned: the closure issues its next call or returns
CallReturns(c) ==
    /\ act[c].name # "none"
    /\ g[c].pc = "ret"
    /\ LET errs == Append(act[c].errs, g[c].res)
           declined == act[c].declined \/ g[c].dialog = "cancel"
       IN IF HasNextCall(act[c].name, errs)
          THEN /\ \E hang \in BOOLEAN : BeginCall(c, hang)
               /\ act' = [act EXCEPT ![c] =
                            [@ EXCEPT !.errs = errs, !.declined = declined]]
          ELSE /\ g' = [g EXCEPT ![c] = IdleCall]
               /\ act' = [act EXCEPT ![c] = NoAction]
    /\ UNCHANGED <<cachedPassword, cacheMutex, runs, hist, log>>
    /\ UNCHANGED nonGatewayVars

InitGatewayIdle ==
    /\ cachedPassword = ""
    /\ cacheMutex = "free"
    /\ g = [c \in Callers |-> IdleCall]
    /\ act = [c \in Callers |-> NoAction]
    /\ runs = 0
    /\ hist = InitHist
    /\ log = {}

InitGateway ==
    InitGatewayIdle /\ InitExecIdle /\ InitWiFiIdle /\ InitTrashIdle
        /\ InitJobsIdle

NextGateway ==
    \E c \in Callers :
        \/ StartAction(c)
        \/ UnprivReturns(c)
        \/ UnprivTimesOut(c)
        \/ SudoNReturns(c)
        \/ ensurePassword(c)
        \/ PromptReturns(c)
        \/ SudoSReturns(c)
        \/ Invalidate(c)
        \/ CallReturns(c)

SpecGateway == InitGateway /\ [][NextGateway]_vars

(***************************************************************************)
(* Properties of the gateway, checked under SpecGateway.                   *)
(***************************************************************************)
\* a call enters the dialog, or starts its sudo -S command, in this step
OpensPrompt(c) == g[c].pc # "prompt" /\ g'[c].pc = "prompt"
StartsSudoS(c) == g[c].pc # "sudoS" /\ g'[c].pc = "sudoS"

C3_ClearedAfterFailure ==
    /\ [](hist.invalidated => cachedPassword = "")
    /\ [][\A c \in Callers :
            (hist.invalidated /\ g[c].pc = "lock" /\ g'[c].pc # "lock")
                => g'[c].pc = "prompt"]_vars

C3_Witness ==
    /\ hist.invalidated
    /\ \E c \in Callers : g[c].pc = "prompt" /\ g[c].nPrompts = 1

\* C4: a declined dialog ends the call with the cancelled outcome, and no
\* dialog is opened later in the same action run.
C4_CancelNotRetried ==
    \A c \in Callers :
        /\ (g[c].pc = "ret" /\ g[c].dialog = "cancel") => g[c].res = ResCancelled
        /\ act[c].declined => g[c].pc # "prompt"

\* C5 as stated: a call that succeeds unprivileged returns success without
\* sudo, and a call opens the dialog or runs sudo -S only after an
\* unprivileged failure that carries a privilege-related signature.
C5_Original ==
    /\ [](\A c \in Callers :
            (g[c].pc = "ret" /\ g[c].unpriv = "ok") =>
                /\ g[c].res = ResNil
                /\ g[c].nPrompts = 0 /\ g[c].nElev = 0 /\ g[c].sudoN = NoOutcome)
    /\ [][\A c \in Callers :
            (OpensPrompt(c) \/ StartsSudoS(c)) => g[c].unpriv = "sig"]_vars

\* C5, amended: a call that succeeds unprivileged returns success without
\* sudo; after any unprivileged failure the call runs sudo -n; it opens the
\* dialog or runs sudo -S only after a sudo -n failure that carries a
\* privilege-related signature; a sudo -n success is returned as success
\* and a sudo -n failure without the signature as an error, both without
\* the dialog.
C5_Opportunistic ==
    /\ [](\A c \in Callers :
            /\ (g[c].pc = "ret" /\ g[c].unpriv = "ok") =>
                  /\ g[c].res = ResNil
                  /\ g[c].nPrompts = 0 /\ g[c].nElev = 0 /\ g[c].sudoN = NoOutcome
            /\ (g[c].pc = "ret" /\ g[c].sudoN # NoOutcome
                    /\ ~requiresPassword(g[c].sudoN)) =>
                  /\ g[c].nPrompts = 0 /\ g[c].nElev = 0
                  /\ g[c].res = IF g[c].sudoN.err = "nil" THEN ResNil
                                ELSE ResCommandFailed)
    /\ [][\A c \in Callers :
            (OpensPrompt(c) \/ StartsSudoS(c)) =>
                /\ g[c].unpriv \in {"sig", "nosig"}
                /\ requiresPassword(g[c].sudoN)]_vars

C5_Witness ==
    \E c \in Callers :
        /\ g[c].pc = "prompt"
        /\ g[c].unpriv = "nosig"
        /\ g[c].sudoN = PasswordRequired

\* C6: within one call the dialog is opened at most once and sudo -S is run
\* at most once, and a failed sudo -S run ends the call with its error.
C6_NoRetry ==
    \A c \in Callers :
        /\ g[c].nPrompts <= 1
        /\ g[c].nElev <= 1
        /\ (g[c].pc = "ret" /\ g[c].sudoS \notin {NoOutcome, Succeeded})
              => g[c].res = ResCommandFailed

C6_Witness ==
    \E c \in Callers :
        /\ g[c].pc = "ret" /\ g[c].sudoS = Rejected
        /\ g[c].nPrompts = 1 /\ g[c].nElev = 1

\* C7: no closure waits for a process that never exits by itself unless the
\* process was started under a timeout that ends the wait.
C7_EveryWaitBounded ==
    \A c \in Callers :
        (g[c].pc \in WaitPcs /\ g[c].hang) => TimeoutOf(g[c].pc) # NoTimeout

\* C30: within one gateway call the command runs with elevated privileges
\* at most once: when sudo -n has actually executed the command and the
\* command itself exited with a failure, the call returns that failure; it
\* does not go on to obtain a credential and run the command again.
C30_NoSecondElevatedRun ==
    [][\A c \in Callers :
          (/\ g[c].pc = "sudoN" /\ g'[c].pc # "sudoN"
           /\ g'[c].sudoN.ran /\ g'[c].sudoN.err # "nil") =>
              /\ g'[c].pc = "ret"
              /\ g'[c].res = ResCommandFailed]_vars

\* C21: the credential cache changes only by two transitions: from empty
\* to a secret, in the step in which a prompt returns that secret, and from
\* a secret to empty, in the step in which a call handles a sudo -S failure
\* with a privilege-related signature.  A prompt that is cancelled, left
\* empty or fails, a sudo -S run that succeeds and the handling of a sudo -S
\* failure without such a signature leave the cache unchanged.
C21_CacheTransitions ==
    [][/\ cachedPassword' # cachedPassword =>
             \/ /\ cachedPassword = "" /\ cachedPassword' \in Secrets
                /\ \E c \in Callers :
                      /\ g[c].pc = "prompt" /\ g'[c].pc = "sudoS"
                      /\ g'[c].password = cachedPassword'
             \/ /\ cachedPassword \in Secrets /\ cachedPassword' = ""
                /\ \E c \in Callers :
                      /\ g[c].pc = "inval" /\ g'[c].pc = "ret"
                      /\ requiresPassword(g[c].sudoS)
       /\ \A c \in Callers :
             (\/ g[c].pc = "prompt" /\ g'[c].pc = "ret"
              \/ g[c].pc = "sudoS" /\ g'[c].pc = "ret"
              \/ /\ g[c].pc = "inval" /\ g'[c].pc = "ret"
                 /\ ~requiresPassword(g[c].sudoS))
                => cachedPassword' = cachedPassword]_vars

\* a call has handled a sudo -S failure without a privilege-related
\* signature and the password cached by its own prompt is still there
C21_Witness ==
    \E c \in Callers :
        /\ g[c].pc = "ret" /\ g[c].sudoS = FailedWithText
        /\ g[c].nPrompts = 1
        /\ cachedPassword = g[c].password /\ cachedPassword \in Secrets

\* C25: a call that handles the failure of its sudo -S run empties the
\* cache only if the cache still holds the password that run was given: a
\* different password, cached meanwhile after another call's prompt, stays.
C25_NoLateEviction ==
    [][\A c \in Callers :
          (/\ g[c].pc = "inval" /\ g'[c].pc = "ret"
           /\ cachedPassword # "" /\ cachedPassword # g[c].password)
             => cachedPassword' = cachedPassword]_vars

\* C26 as stated: at most one call is in the credential dialog at any
\* time, and a call that was waiting for the mutex when a dialog yielded a
\* password takes that password and opens no dialog of its own.
C26_Original ==
    /\ [](Cardinality({c \in Callers : g[c].pc = "prompt"}) <= 1)
    /\ [][\A c \in hist.waiters :
            g'[c].pc # "lock" =>
               g'[c].pc = "sudoS" /\ g'[c].nPrompts = g[c].nPrompts]_vars

\* C26, amended: at most one call is in the credential dialog at any time,
\* and it holds the mutex; no call leaves its wait for the mutex while a
\* dialog is open; and a call that was waiting when a dialog yielded a
\* password takes the cached password and opens no dialog of its own unless
\* the cache has been emptied before the call got the mutex, in which case
\* it opens the dialog.
C26_OnePromptAtATime ==
    /\ [](/\ Cardinality({c \in Callers : g[c].pc = "prompt"}) <= 1
          /\ \A c \in Callers : g[c].pc = "prompt" => cacheMutex = c)
    /\ [][\A c \in Callers :
            (g[c].pc = "lock" /\ g'[c].pc # "lock") =>
               /\ \A d \in Callers : g[d].pc # "prompt"
               /\ IF cachedPassword # ""
                  THEN /\ g'[c].pc = "sudoS"
                       /\ g'[c].password = cachedPassword
                       /\ g'[c].nPrompts = g[c].nPrompts
                  ELSE g'[c].pc = "prompt"]_vars

\* a call that waited for the mutex while the dialog of the other call
\* was open runs sudo -S with the password that dialog yielded
C26_Witness ==
    \E c, d \in Callers :
        /\ c # d
        /\ g[d].dialog = "allow" /\ g[d].nPrompts = 1 /\ g[d].pc = "sudoS"
        /\ g[c].pc = "sudoS" /\ g[c].nPrompts = 0
        /\ g[c].password = g[d].password
        /\ hist.waiters = {}
        /\ ~hist.everEstablished

\* the argument list of the commands the closures pass to the gateway
Argv(command) ==
    CASE command = "dscacheutil" -> <<"dscacheutil", "-flushcache">>
      [] command = "killall" -> <<"killall", "-HUP", "mDNSResponder">>
      [] OTHER -> <<command>>

\* a variant that hands the password to sudo through a shell pipeline
Started_PasswordInArgs(c) ==
    CASE g[c].pc = "sudoS" ->
            [argv |-> <<"sh", "-c", "echo " \o g[c].password \o " | sudo -S -p '' "
                                      \o CurrentCommand(c)>>,
             stdin |-> ""]
      [] OTHER -> [argv |-> <<"sudo", "-n">> \o Argv(CurrentCommand(c)),
                   stdin |-> ""]

\* the process a gateway call waits for: the argument list it was started
\* with and what is written to its standard input (executeSudoCommand line
\* 2406, sudo.Run lines 25 and 39-41, promptPassword lines 110-113)
Started(c) ==
    CASE g[c].pc = "unpriv" ->
            [argv |-> Argv(CurrentCommand(c)), stdin |-> ""]
      [] g[c].pc = "sudoN" ->
            [argv |-> <<"sudo", "-n">> \o Argv(CurrentCommand(c)),
             stdin |-> ""]
      [] g[c].pc = "prompt" ->
            [argv |-> <<"osascript", "-e",
                        "display dialog ... with hidden answer",
                        "-e", "text returned of result">>,
             stdin |-> ""]
      [] OTHER ->
            [argv |-> <<"sudo", "-S", "-p", "">> \o Argv(CurrentCommand(c)),
             stdin |-> g[c].password \o "\n"]

\* C20: the administrator secret reaches sudo only through the standard
\* input of the elevated process: no argument of any process a gateway
\* call starts contains the password the call holds or the cached one, the
\* sudo -S process reads the password and a newline from its standard
\* input, and no other process is given any input.
C20_SecretOnStdinOnly ==
    \A c \in Callers :
        g[c].pc \in WaitPcs =>
           LET p == Started(c) IN
           /\ \A k \in 1..Len(p.argv), s \in Secrets :
                 \A i \in 1..(Len(p.argv[k]) - Len(s) + 1) :
                    SubSeq(p.argv[k], i, i + Len(s) - 1) # s
           /\ IF g[c].pc = "sudoS"
              THEN g[c].password \in Secrets
                     /\ p.stdin = g[c].password \o "\n"
              ELSE p.stdin = ""

\* a sudo -S process was started with the cached password
C20_Witness ==
    \E c \in Callers :
        /\ g[c].pc = "sudoS"
        /\ g[c].nPrompts = 0
        /\ g[c].password = "s1" /\ cachedPassword = "s1"
        /\ Started(c).stdin = "s1\n"

(***************************************************************************)
(* The Executor: app.Model.Update routing keys, Focus/Blur and messages    *)
(* to quickactions.Model.Update, and the closures Update returns as        *)
(* commands, which the runtime executes in goroutines of their own.        *)
(***************************************************************************)
Keys ==
    {"up", "k", "down", "j", "enter", " ", "f", "g", "G", "esc", "tab",
     "right", "shift+tab", "left", "home", "end", "?", "l", "q", "ctrl+c"}

\* strings.ToLower on the keys
ToLower(k) == IF k = "G" THEN "g" ELSE k

\* fmt.Sprintf of the closure's message
Message(name, success) ==
    IF name = FixAllName
    THEN [text |-> IF success THEN "Fixed common issues"
                   ELSE "Fixed issues (failed)", action |-> ""]
    ELSE [text |-> IF success THEN "completed successfully" ELSE "failed",
          action |-> name]

\* clampSelection with the category "All": every action is visible
clampSelection(i) ==
    IF Len(actions) = 0 THEN 0
    ELSE IF i < 0 THEN 0
    ELSE IF i >= Len(actions) THEN Len(actions) - 1
    ELSE i

\* quickactions Update, case events.Focus
OnFocus(q) ==
    [q EXCEPT !.running = FALSE, !.runningAction = "", !.status = NoMessage,
              !.statusType = "", !.spinnerFrame = 0,
              !.actionIndex = clampSelection(@)]

\* quickactions Update, case events.Blur
OnBlur(q) == [q EXCEPT !.running = FALSE, !.runningAction = ""]

\* executeAction and fixAllCommon: the session state they set before they
\* return the closure
executeAction(q, name) ==
    [q EXCEPT !.running = TRUE, !.runningAction = name, !.status = NoMessage,
              !.statusType = "", !.spinnerFrame = 0]

\* a variant that moves the selection while an action is running
OnKey_NavigateWhileRunning(q, k) ==
    LET totalActions == Len(actions) IN
    CASE k \in {"up", "k"} ->
            [q |-> [q EXCEPT !.actionIndex = IF @ > 0 THEN @ - 1 ELSE @],
             start |-> ""]
      [] k \in {"down", "j"} ->
            [q |-> [q EXCEPT !.actionIndex =
                                IF @ < totalActions - 1 THEN @ + 1 ELSE @],
             start |-> ""]
      [] k \in {"enter", " "} /\ ~q.running /\ q.actionIndex < totalActions ->
            [q |-> executeAction(q, actions[q.actionIndex + 1]),
             start |-> actions[q.actionIndex + 1]]
      [] k = "f" /\ ~q.running ->
            [q |-> executeAction(q, FixAllName), start |-> FixAllName]
      [] k = "g" -> [q |-> [q EXCEPT !.actionIndex = 0], start |-> ""]
      [] k = "G" ->
            [q |-> [q EXCEPT !.actionIndex = totalActions - 1], start |-> ""]
      [] OTHER -> [q |-> q, start |-> ""]

\* quickactions Update, case tea.KeyMsg: the new state and the name of the
\* action whose closure is returned as a command ("" when none is)
OnKey(q, k) ==
    LET totalActions == Len(actions) IN
    IF q.running THEN [q |-> q, start |-> ""]
    ELSE CASE k \in {"up", "k"} ->
                [q |-> [q EXCEPT !.actionIndex = IF @ > 0 THEN @ - 1 ELSE @],
                 start |-> ""]
           [] k \in {"down", "j"} ->
                [q |-> [q EXCEPT !.actionIndex =
                                    IF @ < totalActions - 1 THEN @ + 1 ELSE @],
                 start |-> ""]
           [] k \in {"enter", " "} ->
                IF q.actionIndex < totalActions
                THEN [q |-> executeAction(q, actions[q.actionIndex + 1]),
                      start |-> actions[q.actionIndex + 1]]
                ELSE [q |-> q, start |-> ""]
           [] k = "f" ->
                [q |-> executeAction(q, FixAllName), start |-> FixAllName]
           [] k = "g" -> [q |-> [q EXCEPT !.actionIndex = 0], start |-> ""]
           [] k = "G" ->
                [q |-> [q EXCEPT !.actionIndex = totalActions - 1], start |-> ""]
           [] OTHER -> [q |-> q, start |-> ""]

\* a variant with one frame more than the indicator has
OnSpinnerTick_ExtraFrame(q) ==
    IF q.running
    THEN [q EXCEPT !.spinnerFrame = (@ + 1) % (SpinnerFrames + 1)]
    ELSE q

\* quickactions Update, case spinnerTickMsg
OnSpinnerTick(q) ==
    IF q.running
    THEN [q EXCEPT !.spinnerFrame = (@ + 1) % SpinnerFrames]
    ELSE q

\* quickactions Update, case actionCompleteMsg
OnActionComplete(q, m) ==
    [q EXCEPT !.running = FALSE, !.runningAction = "", !.spinnerFrame = 0,
              !.status = m.message,
              !.statusType = IF m.success THEN "success" ELSE "error"]

\* the module list entry a message is passed to is the quick-actions module
QuickActionsActive == app.activeModule = QuickActionsIndex

\* the runtime starts the commands Update returned: the closure in a
\* goroutine, and the timer of the first spinner tick
StartCommands(name) ==
    IF name = ""
    THEN UNCHANGED <<closures, ticks, started>>
    ELSE /\ started < MaxStarts
         /\ started' = started + 1
         /\ closures' = closures \cup {[id |-> started + 1, name |-> name]}
         /\ ticks' = ticks + 1

\* app Update, case tea.KeyMsg, with the module focused: the key goes to
\* the module, then esc takes the focus away unless a modal is open
FocusedKey(k) ==
    LET r == IF QuickActionsActive THEN OnKey(qa, k)
             ELSE [q |-> qa, start |-> ""]
    IN /\ StartCommands(r.start)
       /\ \E modal \in IF QuickActionsActive THEN {FALSE} ELSE BOOLEAN :
             IF k = "esc" /\ ~modal
             THEN /\ app' = [app EXCEPT !.moduleFocused = FALSE]
                  /\ qa' = IF QuickActionsActive THEN OnBlur(r.q) ELSE r.q
             ELSE /\ app' = app
                  /\ qa' = r.q

\* app Update, case tea.KeyMsg, with no module focused: global commands
GlobalKey(k) ==
    /\ UNCHANGED <<closures, ticks, started>>
    /\ CASE ToLower(k) = "q" ->
              /\ app' = [app EXCEPT !.quitting = TRUE]
              /\ qa' = qa
         [] ToLower(k) = "?" ->
              /\ app' = [app EXCEPT !.showHelp = ~@,
                                    !.showLogs = IF ~app.showHelp THEN FALSE ELSE @]
              /\ qa' = qa
         [] ToLower(k) = "l" ->
              /\ app' = [app EXCEPT !.showLogs = ~@]
              /\ qa' = qa
         [] k \in {"tab", "right"} ->
              /\ app' = [app EXCEPT !.activeModule = (@ + 1) % NumModules]
              /\ qa' = qa
         [] k \in {"shift+tab", "left"} ->
              /\ app' = [app EXCEPT !.activeModule =
                                       IF @ - 1 < 0 THEN NumModules - 1 ELSE @ - 1]
              /\ qa' = qa
         [] k = "home" ->
              /\ app' = [app EXCEPT !.activeModule = 0]
              /\ qa' = qa
         [] k = "end" ->
              /\ app' = [app EXCEPT !.activeModule = NumModules - 1]
              /\ qa' = qa
         [] k = "enter" ->
              /\ app' = [app EXCEPT !.moduleFocused = TRUE]
              /\ qa' = IF QuickActionsActive THEN OnFocus(qa) ELSE qa
         [] OTHER -> UNCHANGED <<app, qa>>

\* app Update, case tea.KeyMsg
KeyPress(k) ==
    /\ ~app.quitting
    /\ IF k = "ctrl+c"
       THEN /\ app' = [app EXCEPT !.quitting = TRUE]
            /\ UNCHANGED <<qa, closures, ticks, started>>
       ELSE IF app.showHelp
       THEN /\ app' = [app EXCEPT !.showHelp =
                                     IF ToLower(k) \in {"esc", "q"} THEN FALSE ELSE @]
            /\ UNCHANGED <<qa, closures, ticks, started>>
       ELSE IF app.showLogs
       THEN /\ app' = [app EXCEPT !.showLogs =
                                     IF ToLower(k) \in {"esc", "q"} THEN FALSE ELSE @]
            /\ UNCHANGED <<qa, closures, ticks, started>>
       ELSE IF app.moduleFocused THEN FocusedKey(k)
       ELSE GlobalKey(k)
    /\ UNCHANGED queue
    /\ UNCHANGED nonExecVars

\* app Update, default case, for a spinnerTickMsg: passed to the active
\* module; the quick-actions module schedules the next tick while running
SpinnerTick ==
    /\ ~app.quitting
    /\ ticks > 0
    /\ IF QuickActionsActive
       THEN /\ qa' = OnSpinnerTick(qa)
            /\ ticks' = IF qa.running THEN ticks ELSE ticks - 1
       ELSE /\ qa' = qa
            /\ ticks' = ticks - 1
    /\ UNCHANGED <<app, closures, queue, started>>
    /\ UNCHANGED nonExecVars

\* an action logic closure returns: its message is sent to the runtime
ClosureReturns(cl) ==
    /\ ~app.quitting
    /\ cl \in closures
    /\ closures' = closures \ {cl}
    /\ \E success \in BOOLEAN :
          queue' = queue \cup {[id |-> cl.id, message |-> Message(cl.name, success),
                                success |-> success]}
    /\ UNCHANGED <<app, qa, ticks, started>>
    /\ UNCHANGED nonExecVars

\* app Update, default case, for an actionCompleteMsg: passed to the active
\* module, whichever module that is
ActionComplete(m) ==
    /\ ~app.quitting
    /\ m \in queue
    /\ queue' = queue \ {m}
    /\ qa' = IF QuickActionsActive THEN OnActionComplete(qa, m) ELSE qa
    /\ UNCHANGED <<app, closures, ticks, started>>
    /\ UNCHANGED nonExecVars

InitExec ==
    InitExecIdle /\ InitGatewayIdle /\ InitWiFiIdle /\ InitTrashIdle
        /\ InitJobsIdle

NextExec ==
    \/ \E k \in Keys : KeyPress(k)
    \/ SpinnerTick
    \/ \E cl \in closures : ClosureReturns(cl)
    \/ \E m \in queue : ActionComplete(m)

SpecExec == InitExec /\ [][NextExec]_vars

(***************************************************************************)
(* Properties of the Executor, checked under SpecExec.                     *)
(***************************************************************************)
\* C1: at most one action logic closure (a single action or the composite
\* fix-all) is executing at any time.
C1_AtMostOneExecuting == Cardinality(closures) <= 1

\* C17: the outcome of every action that was started is shown: when the
\* message of a returned closure is taken from the runtime's queue, the
\* Executor's status line carries that message and its success or failure,
\* whatever Focus/Blur events or module switches happened while the action
\* ran.
C17_OutcomeShown ==
    [][\A m \in queue :
          m \notin queue' =>
             /\ qa'.status = m.message
             /\ qa'.statusType = IF m.success THEN "success" ELSE "error"]_vars

\* C18: a Blur (the focused quick-actions module loses the focus) while the
\* Executor is idle clears the displayed outcome and resets the elapsed
\* indicator to 0; a Blur while an action is running leaves the running
\* flag, the running-action reference and the executing closure unchanged.
C18_BlurFrame ==
    [][(app.moduleFocused /\ ~app'.moduleFocused /\ QuickActionsActive) =>
          IF qa.running
          THEN /\ qa'.running
               /\ qa'.runningAction = qa.runningAction
               /\ closures' = closures
          ELSE /\ qa'.status = NoMessage
               /\ qa'.spinnerFrame = 0]_vars

\* C29: a completion message affects the session only of the action that
\* produced it: when the message of an earlier action is taken from the
\* queue while the closure of an action started later is still executing
\* and the session shows that later action as running, the running flag and
\* the running-action reference stay as they are and the display is not
\* replaced by the earlier action's outcome.
C29_CompletionOfOwnAction ==
    [][\A m \in queue :
          (/\ m \notin queue'
           /\ qa.running
           /\ \E cl \in closures : cl.id > m.id) =>
              /\ qa'.running
              /\ qa'.runningAction = qa.runningAction
              /\ qa'.status = qa.status
              /\ qa'.statusType = qa.statusType]_vars

C23_TickOnlyIndicator ==
    /\ [](qa.spinnerFrame \in 0..9)
    /\ [][/\ ticks' < ticks =>
                ~qa.running /\ qa' = qa /\ ticks' = ticks - 1
          /\ (qa.running /\ qa'.running /\ qa' # qa) =>
                /\ qa' = [qa EXCEPT !.spinnerFrame = (@ + 1) % 10]
                /\ ticks' = ticks
          /\ (~qa.running /\ qa'.running) => qa'.spinnerFrame = 0
          /\ ((\E m \in queue : m \notin queue') /\ QuickActionsActive) =>
                ~qa'.running /\ qa'.spinnerFrame = 0]_vars

\* the indicator of a running action shows its last frame and the next
\* tick is scheduled
C23_Witness ==
    /\ qa.running /\ qa.spinnerFrame = 9
    /\ ticks > 0
    /\ QuickActionsActive

(***************************************************************************)
(* Fix WiFi: fixWiFi and getActiveNetworkInterface, one runner call per    *)
(* step.  Positions: svcOff/svcOn (service i of wifiServices), route,      *)
(* ifconfig, getinfo (getActiveNetworkInterface), ifOff/ifOn (interface i  *)
(* of wifiInterfaces), done.                                               *)
(***************************************************************************)
wifiServices == <<"Wi-Fi", "WiFi", "AirPort">>
wifiInterfaces(w) == <<w.networkInterface, "en0", "en1">>
interfaces == <<"en0", "en1", "en2">>
services == <<"Wi-Fi", "Ethernet", "en0", "en1">>

WiFiFailed == "could not reset WiFi - no working interface/service found"
NoInterfaceWarning ==
    [msg |-> "Could not determine network interface, using default: en0",
     dur |-> NoTimeout]

\* networksetup: exits 0, exits non-zero with a message, or cannot start
NetworksetupOutcomes == {Succeeded, FailedWithText, NotFound}
\* output of the pipeline route | grep | awk, whose status is awk's
RouteOutputs == {"", "\n", "en0\n", "utun3\n"}
RouteOutcomes == {Outcome("nil", 0, out, TRUE) : out \in RouteOutputs}
\* ifconfig | grep -q: grep's status
IfconfigOutcomes == {Succeeded, SilentExit1}

\* the candidate a power command of the run is about
Candidate(w) ==
    IF w.pc \in {"svcOff", "svcOn"} THEN wifiServices[w.i]
    ELSE wifiInterfaces(w)[w.i]

\* the record of a runner call's result in the run
Noted(w, r) ==
    [w EXCEPT !.allTimedOut = @ /\ r.err = ErrTimedOut]

NotedPower(w, op, r) ==
    [Noted(w, r) EXCEPT
        !.calls = Append(@, [target |-> Candidate(w), op |-> op,
                             ok |-> r.err = ErrNil])]

\* the loops' continuation after a candidate that did not work: the next
\* candidate, the interface names after the last service, or the end
NextCandidate(w) ==
    CASE w.i < 3 ->
            [w EXCEPT !.i = @ + 1,
                      !.pc = IF w.pc \in {"svcOff", "svcOn"} THEN "svcOff"
                             ELSE "ifOff"]
      [] w.pc \in {"svcOff", "svcOn"} -> [w EXCEPT !.pc = "route", !.i = 0]
      [] OTHER -> [w EXCEPT !.pc = "done", !.res = WiFiFailed]

StartFixWiFi ==
    /\ wifi.pc = "idle"
    /\ wifi' = [IdleWiFi EXCEPT !.pc = "svcOff", !.i = 1]
    /\ UNCHANGED <<gatewayVars, execVars, trashVars, jobVars>>

\* networksetup -setairportpower <candidate> off
PowerOff ==
    /\ wifi.pc \in {"svcOff", "ifOff"}
    /\ \E c \in RunnerCalls(NetworksetupOutcomes) :
          LET r == runCommandWithTimeout(c.o, c.deadline)
              w == NotedPower(wifi, "off", r)
          IN /\ wifi' = IF r.err = ErrNil
                        THEN [w EXCEPT !.pc = IF wifi.pc = "svcOff" THEN "svcOn"
                                              ELSE "ifOn"]
                        ELSE NextCandidate(w)
             /\ log' = Logged(r, shortCommandTimeout)
    /\ UNCHANGED <<cachedPassword, cacheMutex, g, act, runs, hist>>
    /\ UNCHANGED <<execVars, trashVars, jobVars>>

\* a variant that goes on to the next candidate after a power cycle that
\* worked
PowerOn_KeepTrying ==
    /\ wifi.pc \in {"svcOn", "ifOn"}
    /\ \E c \in RunnerCalls(NetworksetupOutcomes) :
          LET r == runCommandWithTimeout(c.o, c.deadline)
              w == NotedPower(wifi, "on", r)
          IN /\ wifi' = IF r.err = ErrNil /\ w.i = 3 /\ w.pc = "ifOn"
                        THEN [w EXCEPT !.pc = "done", !.success = TRUE,
                                       !.res = ErrNil]
                        ELSE NextCandidate(w)
             /\ log' = Logged(r, shortCommandTimeout)
    /\ UNCHANGED <<cachedPassword, cacheMutex, g, act, runs, hist>>
    /\ UNCHANGED <<execVars, trashVars, jobVars>>

\* time.Sleep, then networksetup -setairportpower <candidate> on
PowerOn ==
    /\ wifi.pc \in {"svcOn", "ifOn"}
    /\ \E c \in RunnerCalls(NetworksetupOutcomes) :
          LET r == runCommandWithTimeout(c.o, c.deadline)
              w == NotedPower(wifi, "on", r)
          IN /\ wifi' = IF r.err = ErrNil
                        THEN [w EXCEPT !.pc = "done", !.success = TRUE,
                                       !.res = ErrNil]
                        ELSE NextCandidate(w)
             /\ log' = Logged(r, shortCommandTimeout)
    /\ UNCHANGED <<cachedPassword, cacheMutex, g, act, runs, hist>>
    /\ UNCHANGED <<execVars, trashVars, jobVars>>

\* getActiveNetworkInterface, method 1: the interface of the default route
RouteLookup ==
    /\ wifi.pc = "route"
    /\ \E c \in RunnerCalls(RouteOutcomes) :
          LET r == runShellWithTimeoutOutput(c.o, c.deadline)
              w == Noted(wifi, r)
          IN /\ wifi' = IF r.err = ErrNil /\ r.out # "" /\ TrimSpace(r.out) # ""
                        THEN [w EXCEPT !.networkInterface = TrimSpace(r.out),
                                       !.pc = "ifOff", !.i = 1]
                        ELSE [w EXCEPT !.pc = "ifconfig", !.i = 1]
             /\ log' = Logged(r, shortCommandTimeout)
    /\ UNCHANGED <<cachedPassword, cacheMutex, g, act, runs, hist>>
    /\ UNCHANGED <<execVars, trashVars, jobVars>>

\* getActiveNetworkInterface, method 2: the first interface that is active
IfconfigCheck ==
    /\ wifi.pc = "ifconfig"
    /\ \E c \in RunnerCalls(IfconfigOutcomes) :
          LET r == runShellWithTimeout(c.o, c.deadline)
              w == Noted(wifi, r)
          IN /\ wifi' = IF r.err = ErrNil
                        THEN [w EXCEPT !.networkInterface = interfaces[wifi.i],
                                       !.pc = "ifOff", !.i = 1]
                        ELSE IF wifi.i < Len(interfaces)
                        THEN [w EXCEPT !.i = @ + 1]
                        ELSE [w EXCEPT !.pc = "getinfo", !.i = 1]
             /\ log' = Logged(r, shortCommandTimeout)
    /\ UNCHANGED <<cachedPassword, cacheMutex, g, act, runs, hist>>
    /\ UNCHANGED <<execVars, trashVars, jobVars>>

\* getActiveNetworkInterface, method 3 and the final fallback
GetInfo ==
    /\ wifi.pc = "getinfo"
    /\ \E c \in RunnerCalls(NetworksetupOutcomes) :
          LET r == runCommandWithTimeout(c.o, c.deadline)
              w == Noted(wifi, r)
              last == wifi.i = Len(services)
          IN /\ wifi' = IF r.err = ErrNil
                        THEN [w EXCEPT !.networkInterface = services[wifi.i],
                                       !.pc = "ifOff", !.i = 1]
                        ELSE IF ~last
                        THEN [w EXCEPT !.i = @ + 1]
                        ELSE [w EXCEPT !.networkInterface = "en0",
                                       !.pc = "ifOff", !.i = 1]
             /\ log' = IF r.err # ErrNil /\ last
                       THEN Logged(r, shortCommandTimeout) \cup {NoInterfaceWarning}
                       ELSE Logged(r, shortCommandTimeout)
    /\ UNCHANGED <<cachedPassword, cacheMutex, g, act, runs, hist>>
    /\ UNCHANGED <<execVars, trashVars, jobVars>>

InitWiFi ==
    InitWiFiIdle /\ InitGatewayIdle /\ InitExecIdle /\ InitTrashIdle
        /\ InitJobsIdle

NextWiFi ==
    \/ StartFixWiFi
    \/ PowerOff
    \/ PowerOn
    \/ RouteLookup
    \/ IfconfigCheck
    \/ GetInfo

SpecWiFi == InitWiFi /\ [][NextWiFi]_vars

(***************************************************************************)
(* Properties of the runner and of Fix WiFi, checked under SpecWiFi.       *)
(***************************************************************************)
\* C8: a process that exceeds its timeout makes the runner return the
\* timed-out error, which differs from the errors of a non-zero exit and of
\* an executable that is not found; and a run of Fix WiFi in which the
\* runner calls timed out reports the timed-out error, not a generic
\* failure.
C8_TimeoutReported ==
    /\ \A o \in NetworksetupOutcomes \cup {KilledBySignal} :
          /\ runCommandWithTimeout(o, TRUE).err = ErrTimedOut
          /\ runCommandWithTimeout(o, FALSE).err # ErrTimedOut
    /\ (wifi.pc = "done" /\ wifi.allTimedOut) => wifi.res = ErrTimedOut

\* C14: Fix WiFi tries its candidates in a fixed order, the three service
\* names and then the three interface names: the k-th power-off of a run is
\* for the k-th candidate, and a power-on is only issued right after a
\* power-off of the same candidate that worked.  The first candidate whose
\* power-off and power-on both work ends the run with success, so that no
\* command follows a power-on that worked; and the run reports failure only
\* when all six candidates have been attempted and none of them worked.
C14_FirstSuccessWins ==
    LET calls == wifi.calls
        cands == wifiServices \o wifiInterfaces(wifi)
        offs(k) == Cardinality({j \in 1..k : calls[j].op = "off"})
        worked(k) == calls[k].op = "on" /\ calls[k].ok
    IN /\ \A k \in 1..Len(calls) :
             /\ offs(k) <= Len(cands)
             /\ calls[k].op = "off" => calls[k].target = cands[offs(k)]
             /\ calls[k].op = "on" =>
                   /\ k > 1
                   /\ calls[k-1] = [target |-> calls[k].target, op |-> "off",
                                    ok |-> TRUE]
             /\ worked(k) =>
                   /\ k = Len(calls)
                   /\ wifi.pc = "done" /\ wifi.success /\ wifi.res = ErrNil
       /\ (wifi.pc = "done" /\ wifi.res = ErrNil) =>
             Len(calls) > 0 /\ worked(Len(calls))
       /\ (wifi.pc = "done" /\ wifi.res # ErrNil) =>
             /\ offs(Len(calls)) = Len(cands)
             /\ \A k \in 1..Len(calls) : ~worked(k)

\* only the third candidate works: two failed attempts, then success
C14_Witness ==
    /\ wifi.pc = "done" /\ wifi.res = ErrNil
    /\ Len(wifi.calls) = 4
    /\ wifi.calls[4] = [target |-> "AirPort", op |-> "on", ok |-> TRUE]
    /\ ~wifi.calls[1].ok /\ ~wifi.calls[2].ok

\* C28: Fix WiFi never returns leaving a candidate powered off by the
\* action itself: when the run has returned, with success or with failure,
\* every power-off that worked is followed by a power-on of that same
\* candidate that worked.
C28_PoweredOnAgain ==
    wifi.pc = "done" =>
        \A k \in 1..Len(wifi.calls) :
            (wifi.calls[k].op = "off" /\ wifi.calls[k].ok) =>
                \E j \in (k+1)..Len(wifi.calls) :
                    wifi.calls[j] = [target |-> wifi.calls[k].target,
                                     op |-> "on", ok |-> TRUE]

(***************************************************************************)
(* Empty Trash: emptyTrashInternal, one external command per step; the     *)
(* elevated removal goes through the gateway as the call of TrashCaller.   *)
(* Positions: countBefore, chflags, rm, findFlags, findDelete, sudo,       *)
(* countAfter, done.                                                       *)
(***************************************************************************)
\* largest number of entries of the trash directory
MaxItems == 3

\* the goroutine that runs the closure
TrashCaller == "c1"

DigitChars == "0123456789"

IsDigit(ch) == \E d \in 1..Len(DigitChars) : SubSeq(DigitChars, d, d) = ch

DigitValue(ch) ==
    (CHOOSE d \in 1..Len(DigitChars) : SubSeq(DigitChars, d, d) = ch) - 1

\* the decimal text of n, as %d and wc print it
RECURSIVE Itoa(_)
Itoa(n) ==
    IF n < Len(DigitChars)
    THEN SubSeq(DigitChars, n + 1, n + 1)
    ELSE Itoa(n \div Len(DigitChars))
            \o SubSeq(DigitChars, (n % Len(DigitChars)) + 1,
                      (n % Len(DigitChars)) + 1)

\* output of find | wc -l for a directory with n entries
WcOutput(n) == "       " \o Itoa(n) \o "\n"

RECURSIVE ParseDigits(_, _)
ParseDigits(t, acc) ==
    IF t # "" /\ IsDigit(SubSeq(t, 1, 1))
    THEN ParseDigits(SubSeq(t, 2, Len(t)),
                     acc * Len(DigitChars) + DigitValue(SubSeq(t, 1, 1)))
    ELSE acc

\* fmt.Sscanf(text, "%d", &v) on a variable that holds old: v afterwards
Sscanf(t, old) ==
    IF t # "" /\ IsDigit(SubSeq(t, 1, 1)) THEN ParseDigits(t, 0) ELSE old

TrashNotFound == "trash directory not found"
PartiallyCleaned(n) ==
    "partially cleaned: " \o Itoa(n) \o " items remain (some may be in use)"
FailedToEmpty(n) == "failed to empty trash: " \o Itoa(n) \o " items remain"

\* the count pipeline: its status is that of wc, its output the count
CountOutcomes == {Outcome("nil", 0, WcOutput(trashDir.items), TRUE)}
\* sh -c "... || true": exits 0 whatever the command did
OrTrueOutcomes == {Succeeded}
\* sh -c "find ... -delete 2>/dev/null": the status of find
FindDeleteOutcomes == {Succeeded, SilentExit1}

\* what a removal command that was started may leave in the directory
Removed(o) ==
    IF o.ran THEN {[trashDir EXCEPT !.items = n] : n \in 0..trashDir.items}
    ELSE {trashDir}

Invoked(t, stage) == [t EXCEPT !.invoked = Append(@, stage)]

\* emptyTrashInternal lines 2820-2837: the outcome from the two counts
Classify_ByStage(t) ==
    IF t.success THEN ErrNil
    ELSE IF t.itemsAfter < t.itemsBefore THEN PartiallyCleaned(t.itemsAfter)
    ELSE FailedToEmpty(t.itemsAfter)

Classify(t) ==
    IF t.itemsAfter = 0 THEN ErrNil
    ELSE IF t.itemsAfter < t.itemsBefore THEN PartiallyCleaned(t.itemsAfter)
    ELSE FailedToEmpty(t.itemsAfter)

\* main, case "cleanup" "empty-trash": what the process prints and the
\* status it exits with for the error EmptyTrash returned
cleanupEmptyTrash_IgnoreError(err) ==
    [out |-> "Trash emptied successfully.", status |-> 0]

cleanupEmptyTrash(err) ==
    IF err # ErrNil
    THEN [out |-> "Empty Trash failed: " \o err, status |-> 1]
    ELSE [out |-> "Trash emptied successfully.", status |-> 0]

\* lines 2754-2761: os.Stat of the trash path
StartEmptyTrash ==
    /\ trash.pc = "idle"
    /\ trash' = IF trashDir.exists
                THEN [IdleTrash EXCEPT !.pc = "countBefore"]
                ELSE [IdleTrash EXCEPT !.pc = "done", !.res = TrashNotFound]
    /\ UNCHANGED <<gatewayVars, execVars, wifiVars, trashDir, jobVars>>

\* lines 2763-2774: count the entries, return when the count is 0
CountBefore_NoShortCircuit ==
    /\ trash.pc = "countBefore"
    /\ \E c \in RunnerCalls(CountOutcomes) :
          LET r == runShellWithTimeoutOutput(c.o, c.deadline)
              n == Sscanf(TrimSpace(r.out), 0)
              t == [trash EXCEPT !.itemsBefore = n,
                                 !.measured = Append(@, r.err = ErrNil)]
          IN /\ trash' = [t EXCEPT !.pc = "chflags"]
             /\ log' = Logged(r, shortCommandTimeout)
    /\ UNCHANGED <<cachedPassword, cacheMutex, g, act, runs, hist>>
    /\ UNCHANGED <<execVars, wifiVars, trashDir, jobVars>>

CountBefore ==
    /\ trash.pc = "countBefore"
    /\ \E c \in RunnerCalls(CountOutcomes) :
          LET r == runShellWithTimeoutOutput(c.o, c.deadline)
              n == Sscanf(TrimSpace(r.out), 0)
              t == [trash EXCEPT !.itemsBefore = n,
                                 !.measured = Append(@, r.err = ErrNil)]
          IN /\ trash' = IF n = 0
                         THEN [t EXCEPT !.pc = "done", !.res = ErrNil]
                         ELSE [t EXCEPT !.pc = "chflags"]
             /\ log' = Logged(r, shortCommandTimeout)
    /\ UNCHANGED <<cachedPassword, cacheMutex, g, act, runs, hist>>
    /\ UNCHANGED <<execVars, wifiVars, trashDir, jobVars>>

\* lines 2780-2781 and 2795-2796: clear the flags, the result is ignored
ClearFlags ==
    /\ trash.pc \in {"chflags", "findFlags"}
    /\ \E c \in RunnerCalls(OrTrueOutcomes) :
          LET r == runShellWithTimeout(c.o, c.deadline) IN
          /\ trash' = IF trash.pc = "chflags"
                      THEN [Invoked(trash, "chflags") EXCEPT !.pc = "rm"]
                      ELSE [Invoked(trash, "find chflags") EXCEPT
                               !.pc = "findDelete"]
          /\ log' = Logged(r, IF trash.pc = "chflags" THEN shortCommandTimeout
                              ELSE defaultCommandTimeout)
    /\ UNCHANGED <<cachedPassword, cacheMutex, g, act, runs, hist>>
    /\ UNCHANGED <<execVars, wifiVars, trashDir, jobVars>>

\* lines 2783-2789: method 1, rm -rf
DirectRemoval_KeepGoing ==
    /\ trash.pc = "rm"
    /\ \E c \in RunnerCalls(OrTrueOutcomes) :
          LET r == runShellWithTimeout(c.o, c.deadline) IN
          /\ trash' = [Invoked(trash, "rm") EXCEPT !.success = r.err = ErrNil,
                                                    !.pc = "findFlags"]
          /\ trashDir' \in Removed(c.o)
          /\ log' = Logged(r, defaultCommandTimeout)
    /\ UNCHANGED <<cachedPassword, cacheMutex, g, act, runs, hist>>
    /\ UNCHANGED <<execVars, wifiVars, jobVars>>

DirectRemoval ==
    /\ trash.pc = "rm"
    /\ \E c \in RunnerCalls(OrTrueOutcomes) :
          LET r == runShellWithTimeout(c.o, c.deadline) IN
          /\ trash' = IF r.err = ErrNil
                      THEN [Invoked(trash, "rm") EXCEPT !.success = TRUE,
                                                        !.pc = "countAfter"]
                      ELSE [Invoked(trash, "rm") EXCEPT !.pc = "findFlags"]
          /\ trashDir' \in Removed(c.o)
          /\ log' = Logged(r, defaultCommandTimeout)
    /\ UNCHANGED <<cachedPassword, cacheMutex, g, act, runs, hist>>
    /\ UNCHANGED <<execVars, wifiVars, jobVars>>

\* lines 2798-2818: method 2, find -delete; when it fails method 3 starts
\* with the unprivileged attempt of executeSudoShell
FindDelete ==
    /\ trash.pc = "findDelete"
    /\ \E c \in RunnerCalls(FindDeleteOutcomes) :
          LET r == runShellWithTimeout(c.o, c.deadline) IN
          /\ IF r.err = ErrNil
             THEN /\ trash' = [Invoked(trash, "find -delete") EXCEPT
                                  !.success = TRUE, !.pc = "countAfter"]
                  /\ g' = g
             ELSE /\ trash' = [Invoked(Invoked(trash, "find -delete"), "sudo")
                                  EXCEPT !.pc = "sudo"]
                  /\ \E hang \in BOOLEAN : BeginCall(TrashCaller, hang)
          /\ trashDir' \in Removed(c.o)
          /\ log' = Logged(r, defaultCommandTimeout)
    /\ UNCHANGED <<cachedPassword, cacheMutex, act, runs, hist>>
    /\ UNCHANGED <<execVars, wifiVars, jobVars>>

\* lines 2812-2817: executeSudoShell returned
ElevatedRemovalReturns ==
    /\ trash.pc = "sudo"
    /\ g[TrashCaller].pc = "ret"
    /\ trash' = [trash EXCEPT !.success = g[TrashCaller].res = ResNil,
                              !.pc = "countAfter"]
    /\ g' = [g EXCEPT ![TrashCaller] = IdleCall]
    /\ trashDir' \in Removed(Succeeded)
    /\ UNCHANGED <<cachedPassword, cacheMutex, act, runs, hist, log>>
    /\ UNCHANGED <<execVars, wifiVars, jobVars>>

\* lines 2820-2837: recount and classify
CountAfter ==
    /\ trash.pc = "countAfter"
    /\ \E c \in RunnerCalls(CountOutcomes) :
          LET r == runShellWithTimeoutOutput(c.o, c.deadline)
              n == Sscanf(TrimSpace(r.out), 0)
              t == [trash EXCEPT !.itemsAfter = n,
                                 !.measured = Append(@, r.err = ErrNil)]
          IN /\ trash' = [t EXCEPT !.pc = "done", !.res = Classify(t)]
             /\ log' = Logged(r, shortCommandTimeout)
    /\ UNCHANGED <<cachedPassword, cacheMutex, g, act, runs, hist>>
    /\ UNCHANGED <<execVars, wifiVars, trashDir, jobVars>>

\* another process moves an entry to the trash while the action runs
TrashGrows ==
    /\ trash.pc \notin {"idle", "done"}
    /\ trashDir.exists
    /\ trashDir.items < MaxItems
    /\ trashDir' = [trashDir EXCEPT !.items = @ + 1]
    /\ UNCHANGED <<gatewayVars, execVars, wifiVars, trash, jobVars>>

InitTrash ==
    /\ trash = IdleTrash
    /\ trashDir \in {[exists |-> FALSE, items |-> 0]}
                       \cup [exists : {TRUE}, items : 0..MaxItems]
    /\ InitGatewayIdle /\ InitExecIdle /\ InitWiFiIdle /\ InitJobsIdle

NextTrash ==
    \/ StartEmptyTrash
    \/ CountBefore
    \/ ClearFlags
    \/ DirectRemoval
    \/ FindDelete
    \/ UnprivReturns(TrashCaller)
    \/ UnprivTimesOut(TrashCaller)
    \/ SudoNReturns(TrashCaller)
    \/ ensurePassword(TrashCaller)
    \/ PromptReturns(TrashCaller)
    \/ SudoSReturns(TrashCaller)
    \/ Invalidate(TrashCaller)
    \/ ElevatedRemovalReturns
    \/ CountAfter
    \/ TrashGrows

SpecTrash == InitTrash /\ [][NextTrash]_vars

(***************************************************************************)
(* Properties of Empty Trash, checked under SpecTrash.                     *)
(***************************************************************************)
\* C9: when the pre-count is 0 the action reports success and invokes no
\* removal strategy: no flag clearing, no rm, no find -delete, no elevated
\* removal and no credential prompt.
C9_EmptyTrashNoOp ==
    (Len(trash.measured) >= 1 /\ trash.itemsBefore = 0) =>
        /\ trash.pc = "done"
        /\ trash.res = ErrNil
        /\ trash.invoked = <<>>
        /\ g[TrashCaller] = IdleCall

C9_Witness ==
    /\ trash.pc = "done"
    /\ trash.measured = <<TRUE>>
    /\ trash.itemsBefore = 0
    /\ trashDir.exists /\ trashDir.items = 0

\* C10: with pre-count b > 0 and recount a, the outcome is success iff
\* a = 0, the partial failure whose message carries a iff 0 < a < b, and the
\* outright failure iff a >= b, whatever the removal stages reported.
C10_ClassifiedByCounts ==
    (trash.pc = "done" /\ trash.itemsBefore > 0) =>
        LET a == trash.itemsAfter
            b == trash.itemsBefore
        IN /\ trash.res = ErrNil <=> a = 0
           /\ trash.res = PartiallyCleaned(a) <=> (0 < a /\ a < b)
           /\ trash.res = FailedToEmpty(a) <=> a >= b
           /\ trash.res \in {ErrNil, PartiallyCleaned(a), FailedToEmpty(a)}

C10_Witness ==
    /\ trash.pc = "done"
    /\ trash.success
    /\ trash.itemsBefore = MaxItems
    /\ trash.itemsAfter = 1
    /\ trash.res = PartiallyCleaned(1)

\* C11 as stated: with a non-zero pre-count the stages are attempted in the
\* order Finder integration, direct removal, find-based flag clearing and
\* delete, elevated removal, each only if no earlier stage signalled
\* success, and the recount follows the stages.
C11_Original ==
    /\ [](LET order == <<"finder", "chflags", "rm", "find chflags",
                         "find -delete", "sudo">>
          IN /\ trash.invoked = SubSeq(order, 1, Len(trash.invoked))
             /\ (trash.pc = "done" /\ trash.itemsBefore > 0)
                    => Len(trash.measured) = 2)
    /\ [][/\ trash'.invoked # trash.invoked => ~trash.success
          /\ Len(trash.measured) = 2 => trash'.invoked = trash.invoked]_vars

\* C11, amended: there is no Finder stage.  With a non-zero pre-count the
\* stages are attempted in the order direct removal (flag clearing, rm),
\* find-based flag clearing and delete, elevated removal; a stage is
\* attempted only if no earlier stage signalled success; the recount is
\* always performed, and no stage runs after it.
C11_StageOrder ==
    /\ [](LET order == <<"chflags", "rm", "find chflags", "find -delete",
                         "sudo">>
          IN /\ trash.invoked = SubSeq(order, 1, Len(trash.invoked))
             /\ (trash.pc = "done" /\ trash.itemsBefore > 0)
                    => Len(trash.measured) = 2)
    /\ [][/\ trash'.invoked # trash.invoked => ~trash.success
          /\ Len(trash.measured) = 2 => trash'.invoked = trash.invoked]_vars

C11_Witness ==
    /\ trash.pc = "done"
    /\ Len(trash.invoked) = 5
    /\ trash.success
    /\ Len(trash.measured) = 2

C27_SuccessOnlyWhenMeasuredZero ==
    (trash.pc = "done" /\ trash.res = ErrNil) =>
        /\ trash.measured # <<>>
        /\ trash.measured[Len(trash.measured)]

(***************************************************************************)
(* The composite and the counted actions, each run as one sequential       *)
(* closure by the goroutine JobCaller; their gateway calls are calls of    *)
(* the gateway above.                                                      *)
(*   fixAllCommon   positions dscacheutil, killall (flushDNS), purge       *)
(*                  (clearRAM), chmodHome, chmodDir, diskutil              *)
(*                  (fixPermissions), lsregister (rebuildLaunchServices),  *)
(*                  done                                                   *)
(***************************************************************************)
JobCaller == "c1"

\* flushDNS lines 2392-2397, from whether its two gateway calls failed
flushDNS(err1, err2) ==
    IF err1 /\ err2 THEN "DNS flush failed - admin privileges required"
    ELSE ErrNil

\* the sub-actions of fixAllCommon, in the order of its fixes slice
fixes == <<"flushDNS", "clearRAM", "fixPermissions", "rebuildLaunchServices">>

\* commonDirs of fixPermissions
commonDirs == <<"Desktop", "Documents", "Downloads">>

\* fixAllCommon lines 2247-2252; the mark that leads the text (a check mark
\* or a warning sign) is told by the success flag
FixAllMessage(fixed, failed) ==
    IF failed > 0
    THEN "Fixed " \o Itoa(fixed) \o " issues (" \o Itoa(failed) \o " failed)"
    ELSE "Fixed " \o Itoa(fixed) \o " common issues"

\* a variant that counts the sub-actions that returned nil only
Counted_FixedOnly(f, name, err) ==
    [f EXCEPT !.fixed = IF err = ErrNil THEN @ + 1 ELSE @,
              !.returned = Append(@, [name |-> name, ok |-> err = ErrNil])]

\* fixAllCommon lines 2239-2245: one turn of the loop, after fix() returned
Counted(f, name, err) ==
    [f EXCEPT !.fixed = IF err = ErrNil THEN @ + 1 ELSE @,
              !.failed = IF err = ErrNil THEN @ ELSE @ + 1,
              !.returned = Append(@, [name |-> name, ok |-> err = ErrNil])]

NoJobRuns ==
    /\ fixAll.pc = "idle" /\ downloads.pc = "idle" /\ reset.pc = "idle"
    /\ spotlight.pc = "idle"

\* the closure starts: flushDNS issues its first gateway call
StartFixAll ==
    /\ NoJobRuns
    /\ fixAll' = [fixAll EXCEPT !.pc = "dscacheutil"]
    /\ \E hang \in BOOLEAN : BeginCall(JobCaller, hang)
    /\ UNCHANGED <<cachedPassword, cacheMutex, act, runs, hist, log>>
    /\ UNCHANGED <<execVars, wifiVars, trashVars, downloads, reset, spotlight>>

\* a gateway call of flushDNS or clearRAM returned
FixAllCallReturns ==
    /\ fixAll.pc \in {"dscacheutil", "killall", "purge"}
    /\ g[JobCaller].pc = "ret"
    /\ LET err == g[JobCaller].res IN
       CASE fixAll.pc = "dscacheutil" ->
               /\ fixAll' = [fixAll EXCEPT !.err1 = err # ResNil,
                                           !.pc = "killall"]
               /\ \E hang \in BOOLEAN : BeginCall(JobCaller, hang)
         [] fixAll.pc = "killall" ->
               /\ fixAll' = [Counted(fixAll, fixes[1],
                                     flushDNS(fixAll.err1, err # ResNil))
                               EXCEPT !.pc = "purge"]
               /\ \E hang \in BOOLEAN : BeginCall(JobCaller, hang)
         [] OTHER ->
               /\ fixAll' = [Counted(fixAll, fixes[2], err)
                               EXCEPT !.pc = "chmodHome"]
               /\ g' = [g EXCEPT ![JobCaller] = IdleCall]
    /\ UNCHANGED <<cachedPassword, cacheMutex, act, runs, hist, log>>
    /\ UNCHANGED <<execVars, wifiVars, trashVars, downloads, reset, spotlight>>

\* fixPermissions lines 2710-2725: chmod of the home directory, then of
\* each common subdirectory that exists
Chmod ==
    /\ fixAll.pc \in {"chmodHome", "chmodDir"}
    /\ \E c \in RunnerCalls({Succeeded, FailedWithText}), exists \in BOOLEAN :
          LET r == runShellWithTimeout(c.o, c.deadline)
              ran == fixAll.pc = "chmodHome" \/ exists
              f == IF ran /\ r.err = ErrNil
                   THEN [fixAll EXCEPT !.ok = @ + 1] ELSE fixAll
          IN /\ fixAll' = IF fixAll.i < Len(commonDirs)
                          THEN [f EXCEPT !.i = @ + 1, !.pc = "chmodDir"]
                          ELSE [f EXCEPT !.pc = "diskutil"]
             /\ log' = IF ran THEN Logged(r, shortCommandTimeout) ELSE log
    /\ UNCHANGED <<cachedPassword, cacheMutex, g, act, runs, hist>>
    /\ UNCHANGED <<execVars, wifiVars, trashVars, downloads, reset, spotlight>>

\* fixPermissions lines 2727-2742: diskutil verifyVolume, and the result
Diskutil ==
    /\ fixAll.pc = "diskutil"
    /\ \E c \in RunnerCalls({Succeeded, FailedWithText}) :
          LET r == runCommandWithTimeout(c.o, c.deadline)
              ok == IF r.err = ErrNil THEN fixAll.ok + 1 ELSE fixAll.ok
              err == IF ok = 0 THEN "permission repair failed" ELSE ErrNil
          IN /\ fixAll' = [Counted(fixAll, fixes[3], err)
                             EXCEPT !.ok = ok, !.pc = "lsregister"]
             /\ log' = Logged(r, defaultCommandTimeout)
    /\ UNCHANGED <<cachedPassword, cacheMutex, g, act, runs, hist>>
    /\ UNCHANGED <<execVars, wifiVars, trashVars, downloads, reset, spotlight>>

\* rebuildLaunchServices, then lines 2247-2254: the closure's message
RebuildLaunchServices ==
    /\ fixAll.pc = "lsregister"
    /\ \E c \in RunnerCalls({Succeeded, FailedWithText, NotFound}) :
          LET r == runCommandWithTimeout(c.o, c.deadline)
              err == IF r.err # ErrNil
                     THEN "failed to rebuild launch services: " \o r.err
                     ELSE ErrNil
              f == Counted(fixAll, fixes[4], err)
          IN /\ fixAll' = [f EXCEPT !.pc = "done",
                              !.message = FixAllMessage(f.fixed, f.failed),
                              !.success = f.failed = 0]
             /\ log' = Logged(r, longCommandTimeout)
    /\ UNCHANGED <<cachedPassword, cacheMutex, g, act, runs, hist>>
    /\ UNCHANGED <<execVars, wifiVars, trashVars, downloads, reset, spotlight>>

(***************************************************************************)
(* cleanDownloads, one external command per step.  Positions: countBefore, *)
(* delete, countAfter, done.                                               *)
(***************************************************************************)
\* largest number of files of Downloads that are older than 30 days
MaxOld == 2

StartCleanDownloads ==
    /\ NoJobRuns
    /\ downloads' =
          IF downloads.dir.exists
          THEN [downloads EXCEPT !.pc = "countBefore"]
          ELSE [downloads EXCEPT !.pc = "done",
                                 !.res = "downloads directory not found"]
    /\ UNCHANGED <<gatewayVars, execVars, wifiVars, trashVars, fixAll, reset, spotlight>>

\* lines 2855-2865 and 2877-2889: find | wc -l before and after the delete
CountOld ==
    /\ downloads.pc \in {"countBefore", "countAfter"}
    /\ \E c \in RunnerCalls({Outcome("nil", 0, WcOutput(downloads.dir.old),
                                     TRUE)}) :
          LET r == runShellWithTimeoutOutput(c.o, c.deadline)
              n == Sscanf(TrimSpace(r.out), 0)
              removed == downloads.filesBefore - n
          IN /\ downloads' =
                  IF downloads.pc = "countBefore"
                  THEN IF n = 0
                       THEN [downloads EXCEPT !.filesBefore = n,
                                              !.pc = "done", !.res = ErrNil]
                       ELSE [downloads EXCEPT !.filesBefore = n,
                                              !.pc = "delete"]
                  ELSE [downloads EXCEPT
                          !.filesAfter = n, !.pc = "done",
                          !.res = IF removed = 0 /\ downloads.filesBefore > 0
                                  THEN "could not remove old files (they may be in use)"
                                  ELSE ErrNil]
             /\ log' = Logged(r, shortCommandTimeout)
    /\ UNCHANGED <<cachedPassword, cacheMutex, g, act, runs, hist>>
    /\ UNCHANGED <<execVars, wifiVars, trashVars, fixAll, reset, spotlight>>

\* lines 2867-2875: find -mtime +30 -delete, which removes the old files
\* it can remove (a file that is in use or locked stays)
DeleteOld ==
    /\ downloads.pc = "delete"
    /\ \E c \in RunnerCalls(FindDeleteOutcomes),
          left \in 0..downloads.dir.old :
          LET r == runShellWithTimeout(c.o, c.deadline)
              d == [downloads EXCEPT
                      !.deleting = TRUE,
                      !.dir.old = IF c.o.ran THEN left ELSE @]
          IN /\ downloads' =
                  IF r.err # ErrNil
                  THEN [d EXCEPT !.pc = "done",
                                 !.res = "failed to clean downloads: " \o r.err]
                  ELSE [d EXCEPT !.pc = "countAfter"]
             /\ log' = Logged(r, defaultCommandTimeout)
    /\ UNCHANGED <<cachedPassword, cacheMutex, g, act, runs, hist>>
    /\ UNCHANGED <<execVars, wifiVars, trashVars, fixAll, reset, spotlight>>

\* while the action runs, another file of Downloads becomes older than 30
\* days, or a file with an old modification time is moved there
DownloadsGrows ==
    /\ downloads.pc \notin {"idle", "done"}
    /\ downloads.dir.old < MaxOld
    /\ downloads' = [downloads EXCEPT !.dir.old = @ + 1]
    /\ UNCHANGED <<gatewayVars, execVars, wifiVars, trashVars, fixAll, reset, spotlight>>

(***************************************************************************)
(* resetNetwork, one external command or gateway call per step.            *)
(* Positions: dscacheutil, killall (flushDNS), svcOff, svcOn, dhcp         *)
(* (service i of resetServices), route, ifconfig, getinfo                  *)
(* (getActiveNetworkInterface), ifOff, ifOn, done.                         *)
(***************************************************************************)
\* wifiServices of resetNetwork
resetServices == <<"Wi-Fi", "WiFi">>

\* lines 2557-2562: the result from the counter
ResetResult(r) ==
    [r EXCEPT !.pc = "done",
              !.res = IF r.success = 0
                      THEN "network reset failed - try checking Network settings manually"
                      ELSE ErrNil]

\* line 2542: step 3 runs when the counter is below 2
AfterServices(r) ==
    IF r.success < 2 THEN [r EXCEPT !.pc = "route", !.i = 0]
    ELSE ResetResult(r)

\* the closure starts: flushDNS issues its first gateway call
StartResetNetwork ==
    /\ NoJobRuns
    /\ reset' = [reset EXCEPT !.pc = "dscacheutil"]
    /\ \E hang \in BOOLEAN : BeginCall(JobCaller, hang)
    /\ UNCHANGED <<cachedPassword, cacheMutex, act, runs, hist, log>>
    /\ UNCHANGED <<execVars, wifiVars, trashVars, fixAll, downloads, spotlight>>

\* lines 2517-2521: a gateway call of flushDNS returned
ResetCallReturns ==
    /\ reset.pc \in {"dscacheutil", "killall"}
    /\ g[JobCaller].pc = "ret"
    /\ LET err == g[JobCaller].res IN
       IF reset.pc = "dscacheutil"
       THEN /\ reset' = [reset EXCEPT !.err1 = err # ResNil, !.pc = "killall"]
            /\ \E hang \in BOOLEAN : BeginCall(JobCaller, hang)
       ELSE /\ reset' = [reset EXCEPT
                           !.success = IF flushDNS(reset.err1, err # ResNil)
                                            = ErrNil
                                       THEN @ + 1 ELSE @,
                           !.pc = "svcOff", !.i = 1]
            /\ g' = [g EXCEPT ![JobCaller] = IdleCall]
    /\ UNCHANGED <<cachedPassword, cacheMutex, act, runs, hist, log>>
    /\ UNCHANGED <<execVars, wifiVars, trashVars, fixAll, downloads, spotlight>>

\* lines 2524-2539 and 2543-2554: networksetup -setairportpower off, and
\* after a sleep on, for service i or for the interface found
ResetPower ==
    /\ reset.pc \in {"svcOff", "svcOn", "ifOff", "ifOn"}
    /\ \E c \in RunnerCalls(NetworksetupOutcomes) :
          LET r == runCommandWithTimeout(c.o, c.deadline)
              svc == reset.pc \in {"svcOff", "svcOn"}
              off == reset.pc \in {"svcOff", "ifOff"}
              n == [reset EXCEPT !.calls = Append(@,
                      [via |-> IF svc THEN "service" ELSE "interface",
                       target |-> IF svc THEN resetServices[reset.i]
                                  ELSE reset.networkInterface,
                       op |-> IF off THEN "off" ELSE "on",
                       ok |-> r.err = ErrNil])]
          IN /\ reset' =
                  CASE r.err = ErrNil /\ off ->
                          [n EXCEPT !.pc = IF svc THEN "svcOn" ELSE "ifOn"]
                    [] r.err = ErrNil /\ svc ->
                          [n EXCEPT !.success = @ + 1, !.pc = "dhcp"]
                    [] r.err = ErrNil ->
                          ResetResult([n EXCEPT !.success = @ + 1])
                    [] svc /\ reset.i < Len(resetServices) ->
                          [n EXCEPT !.i = @ + 1, !.pc = "svcOff"]
                    [] svc -> AfterServices(n)
                    [] OTHER -> ResetResult(n)
             /\ log' = Logged(r, shortCommandTimeout)
    /\ UNCHANGED <<cachedPassword, cacheMutex, g, act, runs, hist>>
    /\ UNCHANGED <<execVars, wifiVars, trashVars, fixAll, downloads, spotlight>>

\* lines 2532-2537: networksetup -setdhcp, then the loop is left
RenewDHCP ==
    /\ reset.pc = "dhcp"
    /\ \E c \in RunnerCalls(NetworksetupOutcomes) :
          LET r == runCommandWithTimeout(c.o, c.deadline) IN
          /\ reset' = AfterServices(
                         IF r.err = ErrNil
                         THEN [reset EXCEPT !.success = @ + 1] ELSE reset)
          /\ log' = Logged(r, defaultCommandTimeout)
    /\ UNCHANGED <<cachedPassword, cacheMutex, g, act, runs, hist>>
    /\ UNCHANGED <<execVars, wifiVars, trashVars, fixAll, downloads, spotlight>>

\* line 2543: getActiveNetworkInterface, one of its commands per step: the
\* route lookup (i = 0), ifconfig for interfaces[i], networksetup -getinfo
\* for services[i], and the fallback "en0"
ResetLookup ==
    /\ reset.pc \in {"route", "ifconfig", "getinfo"}
    /\ \E c \in RunnerCalls(CASE reset.pc = "route" -> RouteOutcomes
                              [] reset.pc = "ifconfig" -> IfconfigOutcomes
                              [] OTHER -> NetworksetupOutcomes) :
          LET r == CASE reset.pc = "route" ->
                           runShellWithTimeoutOutput(c.o, c.deadline)
                     [] reset.pc = "ifconfig" ->
                           runShellWithTimeout(c.o, c.deadline)
                     [] OTHER -> runCommandWithTimeout(c.o, c.deadline)
              found(name) == [reset EXCEPT !.networkInterface = name,
                                           !.pc = "ifOff"]
              last == reset.pc = "getinfo" /\ reset.i = Len(services)
          IN /\ reset' =
                  CASE reset.pc = "route" ->
                          IF r.err = ErrNil /\ r.out # ""
                                /\ TrimSpace(r.out) # ""
                          THEN found(TrimSpace(r.out))
                          ELSE [reset EXCEPT !.pc = "ifconfig", !.i = 1]
                    [] reset.pc = "ifconfig" ->
                          IF r.err = ErrNil THEN found(interfaces[reset.i])
                          ELSE IF reset.i < Len(interfaces)
                          THEN [reset EXCEPT !.i = @ + 1]
                          ELSE [reset EXCEPT !.pc = "getinfo", !.i = 1]
                    [] OTHER ->
                          IF r.err = ErrNil THEN found(services[reset.i])
                          ELSE IF ~last THEN [reset EXCEPT !.i = @ + 1]
                          ELSE found("en0")
             /\ log' = IF r.err # ErrNil /\ last
                       THEN Logged(r, shortCommandTimeout)
                               \cup {NoInterfaceWarning}
                       ELSE Logged(r, shortCommandTimeout)
    /\ UNCHANGED <<cachedPassword, cacheMutex, g, act, runs, hist>>
    /\ UNCHANGED <<execVars, wifiVars, trashVars, fixAll, downloads, spotlight>>

(***************************************************************************)
(* fixSpotlight: three gateway calls, mdutil -i off, mdutil -E and mdutil  *)
(* -i on.  Positions: disable, erase, enable, done.                        *)
(***************************************************************************)
StartFixSpotlight ==
    /\ NoJobRuns
    /\ spotlight' = [spotlight EXCEPT !.pc = "disable"]
    /\ \E hang \in BOOLEAN : BeginCall(JobCaller, hang)
    /\ UNCHANGED <<cachedPassword, cacheMutex, act, runs, hist, log>>
    /\ UNCHANGED <<execVars, wifiVars, trashVars, fixAll, downloads, reset>>

\* a variant that gives up when the index cannot be erased
SpotlightCallReturns_EraseFatal ==
    /\ spotlight.pc \in {"disable", "erase", "enable"}
    /\ g[JobCaller].pc = "ret"
    /\ LET err == g[JobCaller].res
           s == [spotlight EXCEPT !.calls =
                    Append(@, [step |-> spotlight.pc, ok |-> err = ResNil])]
       IN IF spotlight.pc # "enable" /\ err = ResNil
          THEN /\ spotlight' = [s EXCEPT !.pc = IF spotlight.pc = "disable"
                                                THEN "erase" ELSE "enable"]
               /\ \E hang \in BOOLEAN : BeginCall(JobCaller, hang)
          ELSE /\ spotlight' = [s EXCEPT !.pc = "done", !.res = err]
               /\ g' = [g EXCEPT ![JobCaller] = IdleCall]
    /\ UNCHANGED <<cachedPassword, cacheMutex, act, runs, hist, log>>
    /\ UNCHANGED <<execVars, wifiVars, trashVars, fixAll, downloads, reset>>

\* lines 2634-2657: a gateway call of fixSpotlight returned
SpotlightCallReturns ==
    /\ spotlight.pc \in {"disable", "erase", "enable"}
    /\ g[JobCaller].pc = "ret"
    /\ LET err == g[JobCaller].res
           s == [spotlight EXCEPT !.calls =
                    Append(@, [step |-> spotlight.pc, ok |-> err = ResNil])]
       IN CASE spotlight.pc = "disable" /\ err # ResNil ->
                  /\ spotlight' =
                        [s EXCEPT !.pc = "done",
                                  !.res = "spotlight reset requires admin privileges"]
                  /\ g' = [g EXCEPT ![JobCaller] = IdleCall]
            [] spotlight.pc = "disable" ->
                  /\ spotlight' = [s EXCEPT !.pc = "erase"]
                  /\ \E hang \in BOOLEAN : BeginCall(JobCaller, hang)
            [] spotlight.pc = "erase" ->
                  /\ spotlight' = [s EXCEPT !.pc = "enable"]
                  /\ \E hang \in BOOLEAN : BeginCall(JobCaller, hang)
            [] OTHER ->
                  /\ spotlight' = [s EXCEPT !.pc = "done", !.res = err]
                  /\ g' = [g EXCEPT ![JobCaller] = IdleCall]
    /\ UNCHANGED <<cachedPassword, cacheMutex, act, runs, hist, log>>
    /\ UNCHANGED <<execVars, wifiVars, trashVars, fixAll, downloads, reset>>

InitActions ==
    /\ fixAll = IdleFixAll
    /\ downloads \in {[IdleDownloads EXCEPT !.dir = d] :
                         d \in {[exists |-> FALSE, old |-> 0]}
                                  \cup [exists : {TRUE}, old : 0..MaxOld]}
    /\ reset = IdleReset
    /\ spotlight = IdleSpotlight
    /\ InitGatewayIdle /\ InitExecIdle /\ InitWiFiIdle /\ InitTrashIdle

NextActions ==
    \/ StartFixAll
    \/ FixAllCallReturns
    \/ Chmod
    \/ Diskutil
    \/ RebuildLaunchServices
    \/ StartCleanDownloads
    \/ CountOld
    \/ DeleteOld
    \/ DownloadsGrows
    \/ StartResetNetwork
    \/ ResetCallReturns
    \/ ResetPower
    \/ RenewDHCP
    \/ ResetLookup
    \/ StartFixSpotlight
    \/ SpotlightCallReturns
    \/ UnprivReturns(JobCaller)
    \/ UnprivTimesOut(JobCaller)
    \/ SudoNReturns(JobCaller)
    \/ ensurePassword(JobCaller)
    \/ PromptReturns(JobCaller)
    \/ SudoSReturns(JobCaller)
    \/ Invalidate(JobCaller)

SpecActions == InitActions /\ [][NextActions]_vars

(***************************************************************************)
(* Properties of the composite and the counted actions, checked under      *)
(* SpecActions.                                                            *)
(***************************************************************************)
\* C13: the composite fix-all runs DNS flush, RAM clear, permissions fix
\* and launch-services rebuild in this order, each once, whether or not an
\* earlier one failed; the counts of its message are the numbers of
\* sub-actions that returned success and failure and sum to 4; and its
\* outcome is success iff no sub-action failed.
C13_FixAllCounts ==
    LET ret == fixAll.returned
        nOK == Cardinality({k \in 1..Len(ret) : ret[k].ok})
        nFailed == Cardinality({k \in 1..Len(ret) : ~ret[k].ok})
    IN /\ Len(ret) <= Len(fixes)
       /\ \A k \in 1..Len(ret) : ret[k].name = fixes[k]
       /\ fixAll.pc = "done" =>
             /\ Len(ret) = Len(fixes)
             /\ nOK + nFailed = 4
             /\ fixAll.message =
                   IF nFailed = 0 THEN "Fixed 4 common issues"
                   ELSE "Fixed " \o Itoa(nOK) \o " issues ("
                           \o Itoa(nFailed) \o " failed)"
             /\ fixAll.success <=> nFailed = 0

\* two of the four sub-actions failed, the DNS flush that ran first among
\* them, and the rebuild that ran last succeeded
C13_Witness ==
    /\ fixAll.pc = "done"
    /\ ~fixAll.returned[1].ok
    /\ fixAll.returned[4].ok
    /\ fixAll.message = "Fixed 2 issues (2 failed)"
    /\ ~fixAll.success

\* C15: Clean Downloads succeeds without starting the delete command when
\* it counts no old file beforehand; when it counted some, it reports
\* failure whenever the recount finds old files left, and success only when
\* the recount finds none.
C15_FailsWhenOldRemain ==
    (downloads.pc = "done" /\ downloads.dir.exists) =>
       /\ downloads.filesBefore = 0 =>
             downloads.res = ErrNil /\ ~downloads.deleting
       /\ (downloads.filesBefore > 0 /\ downloads.filesAfter > 0) =>
             downloads.res # ErrNil

\* C16: a run in which some but not all of the items or sub-operations
\* succeeded is reported as partial, neither as a plain success nor as a
\* plain failure: Clean Downloads that removed some of the old files it
\* counted, Reset Network of whose three operations (DNS flush, WiFi power
\* cycle, DHCP renewal) some succeeded, and fix-all when some sub-actions
\* failed do not return the plain success.
C16_PartialReported ==
    /\ (/\ downloads.pc = "done"
        /\ 0 < downloads.filesAfter
        /\ downloads.filesAfter < downloads.filesBefore) =>
          downloads.res # ErrNil
    /\ (reset.pc = "done" /\ 0 < reset.success /\ reset.success < 3) =>
          reset.res # ErrNil
    /\ (fixAll.pc = "done" /\ 0 < fixAll.failed /\ fixAll.failed < 4) =>
          ~fixAll.success

\* C19: in a run of Reset Network the power cycle by interface name is
\* attempted only when the power cycle by service name did not succeed, so
\* that no run switches WiFi off and on again twice.
C19_NoDoubleToggle ==
    LET calls == reset.calls
        cycled(k) == calls[k].op = "on" /\ calls[k].ok
    IN /\ \A j, k \in 1..Len(calls) :
             (calls[j].via = "service" /\ cycled(j)) =>
                calls[k].via # "interface"
       /\ Cardinality({k \in 1..Len(calls) : cycled(k)}) <= 1

\* C24: Fix Spotlight issues its gateway calls in the order disable, erase,
\* re-enable; a failed disable ends the run with failure before erase or
\* re-enable is attempted; whether the erase fails or not, the re-enable
\* follows and the result does not depend on it; and the run succeeds iff
\* the disable and the re-enable both succeeded.
C24_SpotlightSequence ==
    LET calls == spotlight.calls
        order == <<"disable", "erase", "enable">>
    IN /\ Len(calls) <= Len(order)
       /\ \A k \in 1..Len(calls) : calls[k].step = order[k]
       /\ (Len(calls) >= 1 /\ ~calls[1].ok) =>
             /\ Len(calls) = 1
             /\ spotlight.pc = "done" /\ spotlight.res # ErrNil
       /\ (Len(calls) >= 2 /\ spotlight.pc # "enable") => Len(calls) = 3
       /\ spotlight.pc = "done" =>
             /\ Len(calls) \in {1, 3}
             /\ spotlight.res = ErrNil <=>
                   (Len(calls) = 3 /\ calls[1].ok /\ calls[3].ok)

\* the erase failed, the re-enable ran all the same and the run succeeded
C24_Witness ==
    /\ spotlight.pc = "done" /\ spotlight.res = ErrNil
    /\ Len(spotlight.calls) = 3
    /\ ~spotlight.calls[2].ok

====
